---- MODULE Spec2Model ----
(***************************************************************************)
(* Varify core pipeline: VcfReader -> GeneralProcessor -> CallerProcessor  *)
(* -> VcfTypeHandler -> Aggregator -> VcfWriter (write, sort, compress,    *)
(* index).                                                                 *)
(*                                                                         *)
(* Python strings are sequences of one-character strings, so that split,   *)
(* join, strip, lower, substring tests and int() parsing are computed and  *)
(* not assumed.  Python values are tagged records: None, int, float (in    *)
(* tenths), bool, str and list.                                            *)
(***************************************************************************)
EXTENDS Integers, Sequences, FiniteSets, TLC

\* ------------------------------------------------------------------ bounds
MaxRecords == 2

\* ----------------------------------------------------------------- strings
\* The characters the model uses, in ASCII order.
Ascii ==
  << " ", "'", "(", ")", "+", ",", "-", ".", "/",
     "0", "1", "2", "3", "4", "5", "6", "7", "8", "9",
     "A", "B", "C", "D", "E", "F", "G", "H", "I", "J", "K", "L", "M",
     "N", "O", "P", "Q", "R", "S", "T", "U", "V", "W", "X", "Y", "Z",
     "[", "]", "_",
     "a", "b", "c", "d", "e", "f", "g", "h", "i", "j", "k", "l", "m",
     "n", "o", "p", "q", "r", "s", "t", "u", "v", "w", "x", "y", "z",
     "|" >>

\* The position of x in the sequence q.
IndexIn(q, x) == CHOOSE i \in 1..Len(q) : q[i] = x

\* x comes before y in the sequence q.
Before(q, x, y) == IndexIn(q, x) < IndexIn(q, y)

CharLess(x, y) == Before(Ascii, x, y)

SeqToSet(q) == {q[i] : i \in 1..Len(q)}

DigitChars == << "0", "1", "2", "3", "4", "5", "6", "7", "8", "9" >>

Digits == SeqToSet(DigitChars)

DigitVal(c) == IndexIn(DigitChars, c) - 1

UpperLetters ==
  << "A", "B", "C", "D", "E", "F", "G", "H", "I", "J", "K", "L", "M",
     "N", "O", "P", "Q", "R", "S", "T", "U", "V", "W", "X", "Y", "Z" >>

LowerLetters ==
  << "a", "b", "c", "d", "e", "f", "g", "h", "i", "j", "k", "l", "m",
     "n", "o", "p", "q", "r", "s", "t", "u", "v", "w", "x", "y", "z" >>

\* The letter of the sequence to at the place c has in the sequence from; c
\* itself when it is not in from.
MapChar(from, to, c) ==
  IF \E i \in 1..Len(from) : from[i] = c THEN to[IndexIn(from, c)] ELSE c

LowerChar(c) == MapChar(UpperLetters, LowerLetters, c)

UpperChar(c) == MapChar(LowerLetters, UpperLetters, c)

\* str.lower() / str.upper()
Lower(s) == [i \in 1..Len(s) |-> LowerChar(s[i])]
Upper(s) == [i \in 1..Len(s) |-> UpperChar(s[i])]

\* Python's < on str: lexicographic by code point.
RECURSIVE StrLess(_, _)
StrLess(a, b) ==
  IF Len(b) = 0 THEN FALSE
  ELSE IF Len(a) = 0 THEN TRUE
  ELSE IF a[1] # b[1] THEN CharLess(a[1], b[1])
  ELSE StrLess(Tail(a), Tail(b))

\* sorted(set_of_str): the ascending sequence of a finite set of strings.
RECURSIVE SortedStrs(_)
SortedStrs(S) ==
  IF S = {} THEN << >>
  ELSE LET m == CHOOSE x \in S : \A y \in S \ {x} : StrLess(x, y)
       IN  <<m>> \o SortedStrs(S \ {m})

\* sep.join(parts)
RECURSIVE Join(_, _)
Join(parts, sep) ==
  IF Len(parts) = 0 THEN << >>
  ELSE IF Len(parts) = 1 THEN parts[1]
  ELSE parts[1] \o sep \o Join(Tail(parts), sep)

\* s.split(c) for a one-character separator: "" splits to [""].
RECURSIVE SplitAcc(_, _, _)
SplitAcc(s, c, cur) ==
  IF Len(s) = 0 THEN << cur >>
  ELSE IF s[1] = c THEN << cur >> \o SplitAcc(Tail(s), c, << >>)
  ELSE SplitAcc(Tail(s), c, Append(cur, s[1]))

Split(s, c) == SplitAcc(s, c, << >>)

Contains(s, sub) ==
  \E k \in 0..Len(s) : k + Len(sub) <= Len(s)
                        /\ \A i \in 1..Len(sub) : s[k + i] = sub[i]

\* s.strip(): remove leading and trailing blanks.
RECURSIVE LStrip(_)
LStrip(s) == IF Len(s) > 0 /\ s[1] = " " THEN LStrip(Tail(s)) ELSE s

RECURSIVE RStrip(_)
RStrip(s) ==
  IF Len(s) > 0 /\ s[Len(s)] = " " THEN RStrip(SubSeq(s, 1, Len(s) - 1)) ELSE s

Strip(s) == RStrip(LStrip(s))

\* ------------------------------------------------------------------ values
None == [t |-> "none"]
NaN  == [t |-> "nan"]                  \* a missing DataFrame cell
I(n) == [t |-> "int", v |-> n]
F(n) == [t |-> "float", v |-> n]      \* the float n/10
B(b) == [t |-> "bool", v |-> b]
S(s) == [t |-> "str", v |-> s]
L(q) == [t |-> "list", v |-> q]

\* The outcome of an operation that raised an exception.
Raise(e) == [t |-> "raise", v |-> e]

IsRaise(x) == x.t = "raise"

IsNone(x) == x.t = "none"

\* bool(x): Python truthiness.
Truthy(x) ==
  CASE x.t = "none"  -> FALSE
    [] x.t = "nan"   -> TRUE
    [] x.t = "int"   -> x.v # 0
    [] x.t = "float" -> x.v # 0
    [] x.t = "bool"  -> x.v
    [] x.t = "str"   -> Len(x.v) > 0
    [] x.t = "list"  -> Len(x.v) > 0

Abs(n) == IF n < 0 THEN 0 - n ELSE n

\* Truncation toward zero of n/10, as int(float) does.
TruncTenths(n) == IF n >= 0 THEN n \div 10 ELSE 0 - ((0 - n) \div 10)

RECURSIVE DigitsVal(_, _)
DigitsVal(s, acc) ==
  IF Len(s) = 0 THEN acc ELSE DigitsVal(Tail(s), 10 * acc + DigitVal(s[1]))

\* A sign-less run of at least one digit.
IsDigits(q) == Len(q) > 0 /\ \A i \in 1..Len(q) : q[i] \in Digits

Negative(s) == Len(s) > 0 /\ s[1] = "-"

Unsigned(s) == IF Negative(s) THEN Tail(s) ELSE s

Signed(neg, n) == IF neg THEN 0 - n ELSE n

ParseIntBody(neg, body) ==
  IF IsDigits(body) THEN I(Signed(neg, DigitsVal(body, 0))) ELSE Raise("ValueError")

\* int(str): blanks stripped, an optional sign, at least one digit.
ParseInt(s0) == ParseIntBody(Negative(Strip(s0)), Unsigned(Strip(s0)))

\* int(x)
PyInt(x) ==
  CASE x.t = "int"   -> x
    [] x.t = "float" -> I(TruncTenths(x.v))
    [] x.t = "bool"  -> I(IF x.v THEN 1 ELSE 0)
    [] x.t = "str"   -> ParseInt(x.v)
    [] OTHER         -> Raise("TypeError")

RECURSIVE IntDigits(_)
IntDigits(n) ==
  IF n < 10 THEN << DigitChars[n + 1] >>
  ELSE Append(IntDigits(n \div 10), DigitChars[(n % 10) + 1])

ParseFloatParts(neg, parts) ==
  IF Len(parts) = 1 /\ IsDigits(parts[1])
  THEN F(Signed(neg, 10 * DigitsVal(parts[1], 0)))
  ELSE IF Len(parts) = 2 /\ IsDigits(parts[1]) /\ Len(parts[2]) = 1 /\ IsDigits(parts[2])
  THEN F(Signed(neg, 10 * DigitsVal(parts[1], 0) + DigitVal(parts[2][1])))
  ELSE Raise("ValueError")

\* float(str): digits with at most one decimal digit (kept in tenths).
ParseFloat(s0) ==
  ParseFloatParts(Negative(Strip(s0)), Split(Unsigned(Strip(s0)), "."))

\* float(x)
PyFloat(x) ==
  CASE x.t = "int"   -> F(10 * x.v)
    [] x.t = "float" -> x
    [] x.t = "bool"  -> F(IF x.v THEN 10 ELSE 0)
    [] x.t = "str"   -> ParseFloat(x.v)
    [] OTHER         -> Raise("TypeError")

IntStr(n) == IF n < 0 THEN <<"-">> \o IntDigits(0 - n) ELSE IntDigits(n)

\* repr(x) of a list element, and str(x).
ReprAtom(x) ==
  CASE x.t = "str"   -> <<"'">> \o x.v \o <<"'">>
    [] x.t = "int"   -> IntStr(x.v)
    [] x.t = "float" -> IntStr(TruncTenths(x.v)) \o <<".">> \o IntDigits(Abs(x.v) % 10)
    [] x.t = "bool"  -> IF x.v THEN <<"T", "r", "u", "e">> ELSE <<"F", "a", "l", "s", "e">>
    [] OTHER         -> <<"N", "o", "n", "e">>

PyStr(x) ==
  CASE x.t = "str"  -> x.v
    [] x.t = "list" -> <<"[">> \o Join([i \in 1..Len(x.v) |-> ReprAtom(x.v[i])], <<",", " ">>)
                       \o <<"]">>
    [] x.t = "nan"  -> <<"n", "a", "n">>
    [] OTHER        -> ReprAtom(x)

\* ------------------------------------------------------------ dictionaries
\* A Python dict is a function whose domain is its key set.
Get(d, k) == IF k \in DOMAIN d THEN d[k] ELSE None

GetDefault(d, k, dflt) == IF k \in DOMAIN d THEN d[k] ELSE dflt

\* d.update(e) / d[k] = v
Update(d, e) == [k \in (DOMAIN d) \cup (DOMAIN e) |-> IF k \in DOMAIN e THEN e[k] ELSE d[k]]

Put(d, k, v) == [j \in (DOMAIN d) \cup {k} |-> IF j = k THEN v ELSE d[j]]

EmptyDict == [k \in {} |-> None]

\* a or b
PyOr(a, b) == IF Truthy(a) THEN a ELSE b

\* -------------------------------------------------------- GeneralProcessor
\* record.ID[0] if record.ID else None
FirstId(record) == IF Len(record.ID) > 0 THEN S(record.ID[1]) ELSE None

extract_core_fields(record) ==
  [ CHROM    |-> S(record.CHROM),
    POSITION |-> I(record.POS),
    ID       |-> FirstId(record),
    REF      |-> S(record.REF),
    ALT      |-> IF Len(record.ALT) > 0 THEN S(Join(record.ALT, <<",">>)) ELSE None,
    QUAL     |-> record.QUAL,
    FILTER   |-> IF Len(record.FILTER) > 0 THEN S(Join(record.FILTER, <<";">>)) ELSE None ]

extract_basic_info_fields(info) ==
  [ SVTYPE    |-> Get(info, "SVTYPE"),
    SVLEN     |-> Get(info, "SVLEN"),
    END       |-> Get(info, "END"),
    IMPRECISE |-> B("IMPRECISE" \in DOMAIN info /\ ~IsNone(info["IMPRECISE"])),
    PRECISE   |-> B("PRECISE" \in DOMAIN info /\ ~IsNone(info["PRECISE"])),
    CHROM2    |-> Get(info, "CHR2"),
    MATE_ID   |-> Get(info, "MATEID"),
    HOMLEN    |-> Get(info, "HOMLEN"),
    HOMSEQ    |-> Get(info, "HOMSEQ") ]

\* abs(int(x)) with the exceptions of int() passed on.
AbsInt(x) == LET n == PyInt(x) IN IF IsRaise(n) THEN n ELSE I(Abs(n.v))

\* A variant of normalize_svlen that keeps the sign of the length.
normalize_svlen_signed(svlen) ==
  IF IsNone(svlen) THEN None
  ELSE IF svlen.t = "list" /\ Len(svlen.v) = 0 THEN None
  ELSE LET x == IF svlen.t = "list" THEN svlen.v[1] ELSE svlen
           r == PyInt(x)
       IN  IF IsRaise(r) THEN None ELSE r

\* GeneralProcessor.normalize_svlen: every exception becomes None.
normalize_svlen(svlen) ==
  IF IsNone(svlen) THEN None
  ELSE IF svlen.t = "list" /\ Len(svlen.v) = 0 THEN None
  ELSE LET x == IF svlen.t = "list" THEN svlen.v[1] ELSE svlen
           r == AbsInt(x)
       IN  IF IsRaise(r) THEN None ELSE r

\* ------------------------------------------------------- caller strategies
Callers == {"generic", "sniffles", "tiddit", "dysgu", "cutesv", "gridss"}

\* AbstractVariantCaller.normalize_svlen: an empty list raises IndexError,
\* which the except clause (ValueError, TypeError) does not catch.
caller_normalize_svlen(svlen) ==
  IF IsNone(svlen) THEN None
  ELSE IF svlen.t = "list" /\ Len(svlen.v) = 0 THEN Raise("IndexError")
  ELSE LET x == IF svlen.t = "list" THEN svlen.v[1] ELSE svlen
           r == AbsInt(x)
       IN  IF IsRaise(r) THEN None ELSE r

\* AbstractVariantCaller.extract_primary_caller
caller_extract_primary_caller(info, id_value) ==
  PyOr(PyOr(Get(info, "EUK_CALLER"), Get(info, "CALLER")), None)

\* The first exception among the values of a dict under construction, or the
\* dict itself when no value raised.
FirstRaise(d) ==
  IF \E k \in DOMAIN d : IsRaise(d[k])
  THEN d[CHOOSE k \in DOMAIN d : IsRaise(d[k])]
  ELSE d

\* x[0] if x is a list else x (IndexError on an empty list).
Head0(x) ==
  IF x.t = "list" THEN (IF Len(x.v) = 0 THEN Raise("IndexError") ELSE x.v[1]) ELSE x

\* "int(x) if x else None" inside try/except (ValueError, TypeError): None.
TryIntOrNone(x) ==
  IF ~Truthy(x) THEN None
  ELSE LET n == PyInt(x) IN IF IsRaise(n) THEN None ELSE n

TryFloatOrNone(x) ==
  IF ~Truthy(x) THEN None
  ELSE LET n == PyFloat(x) IN IF IsRaise(n) THEN None ELSE n

\* "int(x) if x else None" with no try: the exception escapes.
IntOrNone(x) == IF ~Truthy(x) THEN None ELSE PyInt(x)

\* NUM_RNAMES of Sniffles and cuteSV.
WithNumRnames(info, parsed) ==
  IF "RNAMES" \notin DOMAIN info THEN parsed
  ELSE LET rnames == info["RNAMES"]
       IN  IF rnames.t = "list" THEN Put(parsed, "NUM_RNAMES", I(Len(rnames.v)))
           ELSE IF rnames.t = "str"
           THEN Put(parsed, "NUM_RNAMES", I(Len(Split(rnames.v, ","))))
           ELSE parsed

generic_parse_info_fields(info) == info

\* A variant of gridss_parse_info_fields that does not look at MATEID.
gridss_parse_info_fields_any_mate(info) ==
  LET fields == generic_parse_info_fields(info)
  IN  IF IsNone(Get(fields, "SVTYPE"))
      THEN Put(fields, "SVTYPE", S(<<"B", "N", "D">>))
      ELSE fields

gridss_parse_info_fields(info) ==
  LET fields == generic_parse_info_fields(info)
  IN  IF IsNone(Get(fields, "SVTYPE")) /\ IsNone(Get(fields, "MATEID"))
      THEN Put(fields, "SVTYPE", S(<<"B", "N", "D">>))
      ELSE fields

sniffles_parse_info_fields(info) ==
  LET p1 == IF "SUPPORT" \in DOMAIN info
            THEN Put(info, "SUPPORT", IntOrNone(info["SUPPORT"]))
            ELSE info
  IN  FirstRaise(WithNumRnames(info, p1))

tiddit_parse_info_fields(info) ==
  LET cilen == Get(info, "CILEN")
      p1 == IF "CILEN" \notin DOMAIN info THEN info
            ELSE IF cilen.t = "list" /\ Len(cilen.v) >= 2
            THEN Put(Put(info, "CILEN_MIN", IntOrNone(cilen.v[1])),
                     "CILEN_MAX", IntOrNone(cilen.v[2]))
            ELSE IF Truthy(cilen) THEN Put(info, "CILEN", PyInt(cilen))
            ELSE info
      p2 == IF "OA" \in DOMAIN info THEN Put(p1, "OA", S(PyStr(info["OA"]))) ELSE p1
  IN  FirstRaise(p2)

dysgu_parse_info_fields(info) ==
  LET nmp  == Head0(Get(info, "NMP"))
      mapq == Head0(Get(info, "MAPQ"))
      p1 == IF "NMP" \notin DOMAIN info THEN info
            ELSE Put(info, "NMP", IF IsRaise(nmp) THEN nmp ELSE TryIntOrNone(nmp))
      p2 == IF "MAPQ" \notin DOMAIN info THEN p1
            ELSE Put(p1, "MAPQ", IF IsRaise(mapq) THEN mapq ELSE TryFloatOrNone(mapq))
  IN  FirstRaise(p2)

cutesv_parse_info_fields(info) ==
  LET re == Head0(Get(info, "RE"))
      af == Head0(Get(info, "AF"))
      p1 == IF "RE" \notin DOMAIN info THEN info
            ELSE Put(info, "RE", IF IsRaise(re) THEN re ELSE TryIntOrNone(re))
      p2 == IF "STRAND" \in DOMAIN info
            THEN Put(p1, "STRAND", S(PyStr(info["STRAND"]))) ELSE p1
      p3 == WithNumRnames(info, p2)
      p4 == IF "AF" \notin DOMAIN info THEN p3
            ELSE Put(p3, "AF", IF IsRaise(af) THEN af ELSE TryFloatOrNone(af))
  IN  FirstRaise(p4)

parse_info_fields(caller, info) ==
  CASE caller = "generic"  -> generic_parse_info_fields(info)
    [] caller = "gridss"   -> gridss_parse_info_fields(info)
    [] caller = "sniffles" -> sniffles_parse_info_fields(info)
    [] caller = "tiddit"   -> tiddit_parse_info_fields(info)
    [] caller = "dysgu"    -> dysgu_parse_info_fields(info)
    [] caller = "cutesv"   -> cutesv_parse_info_fields(info)

\* True of the outcome of an operator that returns a dict or an exception.
IsExc(x) == "t" \in DOMAIN x /\ x["t"] = "raise"

\* [int(raw[0]), int(raw[1])] for a list of at least two elements, with the
\* exception of int() passed on; None when raw is not such a list.
PairOfInts(raw) ==
  IF raw.t = "list" /\ Len(raw.v) >= 2
  THEN LET a == PyInt(raw.v[1])
           b == PyInt(raw.v[2])
       IN  IF IsRaise(a) THEN a ELSE IF IsRaise(b) THEN b ELSE L(<<a, b>>)
  ELSE None

\* The standard CIPOS/CIEND read inside try/except: an exception gives None.
TryDirectCI(info, key) ==
  IF key \in DOMAIN info
  THEN LET r == PairOfInts(info[key]) IN IF IsRaise(r) THEN None ELSE r
  ELSE None

\* The same read with no try around int(): the exception escapes.
DirectCI(info, key) == IF key \in DOMAIN info THEN PairOfInts(info[key]) ELSE None

\* GenericVariantCaller.calculate_confidence_intervals (GRIDSS inherits it).
generic_confidence_intervals(info, record) ==
  << TryDirectCI(info, "CIPOS"), TryDirectCI(info, "CIEND") >>

cutesv_confidence_intervals(info, record) ==
  << DirectCI(info, "CIPOS"), DirectCI(info, "CIEND") >>

\* center +/- 2*std with the center and std as floats (tenths); prev is kept
\* when float() raises ValueError or TypeError.
SnifflesInterval(center, std, prev) ==
  IF IsRaise(std) THEN std
  ELSE LET c == PyFloat(center)
           f == PyFloat(std)
       IN  IF IsRaise(c) \/ IsRaise(f) THEN prev
           ELSE L(<< I(TruncTenths(c.v - 2 * f.v)), I(TruncTenths(c.v + 2 * f.v)) >>)

sniffles_confidence_intervals(info, record) ==
  LET cipos0 == DirectCI(info, "CIPOS")
      ciend0 == DirectCI(info, "CIEND")
      cipos  == IF "CIPOS_STD" \in DOMAIN info
                THEN SnifflesInterval(I(record.POS), Head0(info["CIPOS_STD"]), cipos0)
                ELSE cipos0
      ciend  == IF "CIEND_STD" \in DOMAIN info
                THEN SnifflesInterval(GetDefault(info, "END", I(0)),
                                      Head0(info["CIEND_STD"]), ciend0)
                ELSE ciend0
  IN  IF IsRaise(cipos0) THEN <<cipos0, None>>
      ELSE IF IsRaise(ciend0) THEN <<None, ciend0>>
      ELSE <<cipos, ciend>>

\* start, end = map(int, reg.split(",")) or [int(reg[0]), int(reg[1])], inside
\* try/except: prev is kept on failure.
TidditRegion(reg, prev) ==
  IF reg.t = "str"
  THEN LET parts == Split(reg.v, ",")
       IN  IF Len(parts) # 2 THEN prev
           ELSE LET a == ParseInt(parts[1])
                    b == ParseInt(parts[2])
                IN  IF IsRaise(a) \/ IsRaise(b) THEN prev ELSE L(<<a, b>>)
  ELSE IF reg.t = "list" /\ Len(reg.v) >= 2
  THEN LET r == PairOfInts(reg) IN IF IsRaise(r) THEN prev ELSE r
  ELSE prev

tiddit_confidence_intervals(info, record) ==
  LET cipos0 == DirectCI(info, "CIPOS")
      ciend0 == DirectCI(info, "CIEND")
  IN  IF IsRaise(cipos0) THEN <<cipos0, None>>
      ELSE IF IsRaise(ciend0) THEN <<None, ciend0>>
      ELSE << IF "CIPOS_REG" \in DOMAIN info
              THEN TidditRegion(info["CIPOS_REG"], cipos0) ELSE cipos0,
              IF "CIEND_REG" \in DOMAIN info
              THEN TidditRegion(info["CIEND_REG"], ciend0) ELSE ciend0 >>

\* A variant of DysguInterval that takes the whole width on either side.
DysguInterval_full_width(center, size, prev) ==
  IF IsRaise(size) THEN size
  ELSE LET c == PyInt(center)
           w == PyInt(size)
       IN  IF IsRaise(c) \/ IsRaise(w) THEN prev
           ELSE L(<< I(c.v - w.v), I(c.v + w.v) >>)

\* center +/- int(size) // 2 inside try/except; prev is kept on failure.
DysguInterval(center, size, prev) ==
  IF IsRaise(size) THEN size
  ELSE LET c == PyInt(center)
           w == PyInt(size)
       IN  IF IsRaise(c) \/ IsRaise(w) THEN prev
           ELSE L(<< I(c.v - (w.v \div 2)), I(c.v + (w.v \div 2)) >>)

dysgu_confidence_intervals(info, record) ==
  LET cipos0 == DirectCI(info, "CIPOS")
      ciend0 == DirectCI(info, "CIEND")
      cipos  == IF "CIPOS95" \in DOMAIN info
                THEN DysguInterval(I(record.POS), Head0(info["CIPOS95"]), cipos0)
                ELSE cipos0
      ciend  == IF "CIEND95" \in DOMAIN info
                THEN DysguInterval(GetDefault(info, "END", I(0)),
                                   Head0(info["CIEND95"]), ciend0)
                ELSE ciend0
  IN  IF IsRaise(cipos0) THEN <<cipos0, None>>
      ELSE IF IsRaise(ciend0) THEN <<None, ciend0>>
      ELSE <<cipos, ciend>>

calculate_confidence_intervals(caller, info, record) ==
  CASE caller \in {"generic", "gridss"} -> generic_confidence_intervals(info, record)
    [] caller = "cutesv"   -> cutesv_confidence_intervals(info, record)
    [] caller = "sniffles" -> sniffles_confidence_intervals(info, record)
    [] caller = "tiddit"   -> tiddit_confidence_intervals(info, record)
    [] caller = "dysgu"    -> dysgu_confidence_intervals(info, record)

\* record_data[k] = v when v is not None / when v is truthy.
PutUnlessNone(d, k, v) == IF IsNone(v) THEN d ELSE Put(d, k, v)

PutIfTruthy(d, k, v) == IF Truthy(v) THEN Put(d, k, v) ELSE d

\* The assignments of process_record, given what the caller's methods
\* returned: the row dict, or the first exception one of them raised.
record_data_from(base_data, parsed_info, ci, svlen_normalized, info) ==
  LET record_data == PutUnlessNone(Put(Put(Update(base_data, parsed_info),
                                           "CIPOS", ci[1]), "CIEND", ci[2]),
                                   "SVLEN", svlen_normalized)
  IN  IF IsExc(parsed_info) THEN parsed_info
      ELSE IF IsRaise(ci[1]) THEN ci[1]
      ELSE IF IsRaise(ci[2]) THEN ci[2]
      ELSE IF IsRaise(svlen_normalized) THEN svlen_normalized
      ELSE PutIfTruthy(record_data, "PRIMARY_CALLER",
                       caller_extract_primary_caller(info, Get(record_data, "ID")))

\* CallerProcessor.process_record: the row dict, or the exception that escaped.
process_record(caller, record, info, base_data) ==
  record_data_from(base_data,
                   parse_info_fields(caller, info),
                   calculate_confidence_intervals(caller, info, record),
                   caller_normalize_svlen(Get(info, "SVLEN")),
                   info)

\* -------------------------------------------------------------- vcf_parser
str_sniffles == <<"s", "n", "i", "f", "f", "l", "e", "s">>
str_tiddit   == <<"t", "i", "d", "d", "i", "t">>
str_dysgu    == <<"d", "y", "s", "g", "u">>
str_cutesv   == <<"c", "u", "t", "e", "s", "v">>
str_gridss   == <<"g", "r", "i", "d", "s", "s">>

\* A variant of the dispatch that tests the names in the opposite order.
_get_caller_for_variant_gridss_first(primary_caller) ==
  IF ~Truthy(primary_caller) THEN "generic"
  ELSE LET caller_lower == Lower(primary_caller.v)
       IN  IF Contains(caller_lower, str_gridss) THEN "gridss"
           ELSE IF Contains(caller_lower, str_cutesv) THEN "cutesv"
           ELSE IF Contains(caller_lower, str_dysgu) THEN "dysgu"
           ELSE IF Contains(caller_lower, str_tiddit) THEN "tiddit"
           ELSE IF Contains(caller_lower, str_sniffles) THEN "sniffles"
           ELSE "generic"

_get_caller_for_variant(primary_caller) ==
  IF ~Truthy(primary_caller) THEN "generic"
  ELSE LET caller_lower == Lower(primary_caller.v)
       IN  IF Contains(caller_lower, str_sniffles) THEN "sniffles"
           ELSE IF Contains(caller_lower, str_tiddit) THEN "tiddit"
           ELSE IF Contains(caller_lower, str_dysgu) THEN "dysgu"
           ELSE IF Contains(caller_lower, str_cutesv) THEN "cutesv"
           ELSE IF Contains(caller_lower, str_gridss) THEN "gridss"
           ELSE "generic"

\* --------------------------------------------------------------- vcf_types
Sentinels == { <<"N", "U", "L", "L">>, <<"N", "A", "N">>, <<"N", "A">> }

\* One sample's FORMAT value as process_sample_fields flattens it: a list is
\* comma-joined, None/NaN/"NULL"/"NAN"/"NA" become ".".
SampleStr(value) ==
  LET v1 == IF value.t = "list"
            THEN (IF Len(value.v) > 0
                  THEN S(Join([i \in 1..Len(value.v) |-> PyStr(value.v[i])], <<",">>))
                  ELSE None)
            ELSE value
  IN  IF v1.t \in {"none", "nan"} \/ (v1.t = "str" /\ Upper(v1.v) \in Sentinels)
      THEN <<".">>
      ELSE PyStr(v1)

RequiredFormatFields == {"GT", "PR", "SR", "GQ"}

\* VcfTypeHandler.process_sample_fields (used by BCFHandler): every FORMAT
\* field but ID joined over the samples with " | ", or "." when all are ".".
base_process_sample_fields(record, nsamples) ==
  LET fmt == SeqToSet(record.FORMAT)
      n == IF nsamples < Len(record.calls) THEN nsamples ELSE Len(record.calls)
      field_values(f) == [i \in 1..n |-> SampleStr(Get(record.calls[i], f))]
      joined(f) == IF \A i \in 1..n : field_values(f)[i] = <<".">>
                   THEN S(<<".">>)
                   ELSE S(Join(field_values(f), <<" ", "|", " ">>))
  IN  [f \in (fmt \ {"ID"}) \cup (RequiredFormatFields \ fmt) |->
         IF f \in fmt THEN joined(f) ELSE S(<<"-">>)]

\* The index (0-based) of the first "1" of str(SUPP_VEC), 0 when there is none.
FirstOneBit(supp_vec) ==
  LET bits == PyStr(supp_vec)
  IN  IF \E i \in 1..Len(bits) : bits[i] = "1"
      THEN (CHOOSE i \in 1..Len(bits) :
              bits[i] = "1" /\ \A j \in 1..(i - 1) : bits[j] # "1") - 1
      ELSE 0

\* A variant of active_sample_idx that takes the last "1" of SUPP_VEC.
active_sample_idx_last_bit(record) ==
  LET bits == PyStr(GetDefault(record.INFO, "SUPP_VEC", S(<< >>)))
      ones == { i \in 1..Len(bits) : bits[i] = "1" }
  IN  IF ones = {} THEN 0
      ELSE (CHOOSE i \in ones : \A j \in ones : j <= i) - 1

\* The sample (0-based) SURVIVORHandler.process_sample_fields reads: the
\* first "1" of SUPP_VEC.
active_sample_idx(record) ==
  FirstOneBit(GetDefault(record.INFO, "SUPP_VEC", S(<< >>)))

\* SURVIVORHandler.process_sample_fields
survivor_process_sample_fields(record, nsamples) ==
  LET fmt == SeqToSet(record.FORMAT) \ {"ID"}
      have == IF active_sample_idx(record) < Len(record.calls) THEN fmt ELSE {}
  IN  [f \in have \cup RequiredFormatFields |->
         IF f \in have
         THEN S(SampleStr(Get(record.calls[active_sample_idx(record) + 1], f)))
         ELSE S(<<"-">>)]

bcf_extract_primary_caller(info, record) ==
  PyOr(Get(info, "EUK_CALLER"), Get(info, "CALLER"))

survivor_extract_primary_caller(info, record) ==
  LET id_value == FirstId(record)
  IN  IF Truthy(id_value) /\ Contains(id_value.v, <<"_">>)
      THEN S(Split(id_value.v, "_")[1])
      ELSE None

bcf_extract_type_specific_fields(info, record) == EmptyDict

\* SURVIVORHandler.extract_type_specific_fields; '"_" in call.data["ID"]'
\* raises TypeError when the sample ID is not a string.
survivor_extract_type_specific_fields(info, record) ==
  LET fields0 == [ SUPP_VEC |-> Get(info, "SUPP_VEC"),
                   STRANDS  |-> Get(info, "STRANDS"),
                   SVMETHOD |-> Get(info, "SVMETHOD") ]
      id_value == FirstId(record)
      fields1 == IF Truthy(id_value) /\ Contains(id_value.v, <<"_">>)
                 THEN Put(fields0, "SVTYPE", S(Split(id_value.v, "_")[2]))
                 ELSE fields0
      withId == {i \in 1..Len(record.calls) : "ID" \in DOMAIN record.calls[i]}
      callers == { Split(record.calls[i]["ID"].v, "_")[1] :
                     i \in {j \in withId : record.calls[j]["ID"].t = "str"
                                           /\ Contains(record.calls[j]["ID"].v, <<"_">>)} }
      callers_sorted == SortedStrs(callers)
  IN  IF \E i \in withId : record.calls[i]["ID"].t # "str" THEN Raise("TypeError")
      ELSE IF Len(callers_sorted) > 0
      THEN Put(fields1, "SUPP_CALLERS", S(Join(callers_sorted, <<",", " ">>)))
      ELSE fields1

extract_primary_caller(label, info, record) ==
  IF label = "bcf" THEN bcf_extract_primary_caller(info, record)
  ELSE survivor_extract_primary_caller(info, record)

extract_type_specific_fields(label, info, record) ==
  IF label = "bcf" THEN bcf_extract_type_specific_fields(info, record)
  ELSE survivor_extract_type_specific_fields(info, record)

process_sample_fields(label, record, nsamples) ==
  IF label = "bcf" THEN base_process_sample_fields(record, nsamples)
  ELSE survivor_process_sample_fields(record, nsamples)

should_aggregate(label) == label = "bcf"

\* core_fields["SVLEN"] = GeneralProcessor.normalize_svlen(core_fields.get("SVLEN"))
with_normalized_svlen(core_fields) ==
  Put(core_fields, "SVLEN", normalize_svlen(Get(core_fields, "SVLEN")))

\* core_fields of parse_vcf's loop: the core fields, unique_id, the basic INFO
\* fields and the normalized SVLEN.
core_fields_of(idx, record) ==
  with_normalized_svlen(Update(Put(extract_core_fields(record), "unique_id", I(idx)),
                               extract_basic_info_fields(record.INFO)))

\* The row appended to records, given the results of the loop body's calls.
row_from(primary_caller, record_data, type_specific_fields, sample_fields) ==
  IF Truthy(primary_caller) /\ primary_caller.t # "str" THEN Raise("AttributeError")
  ELSE IF IsExc(record_data) THEN record_data
  ELSE IF IsExc(type_specific_fields) THEN type_specific_fields
  ELSE Update(Put(Update(record_data, type_specific_fields),
                  "PRIMARY_CALLER", primary_caller),
              sample_fields)

\* The body of parse_vcf's loop for one record: the row dict appended to
\* records, or the exception that escaped.
parse_record(label, idx, record) ==
  row_from(extract_primary_caller(label, record.INFO, record),
           process_record(_get_caller_for_variant(
                            extract_primary_caller(label, record.INFO, record)),
                          record, record.INFO, core_fields_of(idx, record)),
           extract_type_specific_fields(label, record.INFO, record),
           process_sample_fields(label, record, Len(record.calls)))

\* --------------------------------------------------------------- DataFrame
\* A DataFrame is its column set and its rows; a row holds every column, with
\* NaN where the source dict had no such key.
NoDf == [cols |-> {}, rows |-> << >>]

\* pd.DataFrame(records)
DataFrame(records) ==
  LET cols == UNION {DOMAIN records[i] : i \in 1..Len(records)}
  IN  [ cols |-> cols,
        rows |-> [i \in 1..Len(records) |->
                    [c \in cols |-> IF c \in DOMAIN records[i] THEN records[i][c] ELSE NaN]] ]

\* A variant of df.empty that looks at the columns only.
Empty_columns_only(df) == df.cols = {}

\* df.empty: either axis has length 0.
Empty(df) == Len(df.rows) = 0 \/ df.cols = {}

\* Series.notna() on one cell: None and NaN are missing, anything else is not.
CellNotna(x) == x.t \notin {"none", "nan"}

\* "if pd.notna(x)" / "if not pd.isna(x)" on a scalar or list-like x: "true",
\* "false", or "raise" (the truth value of an array of two or more elements
\* is ambiguous: ValueError).
Notna3(x) ==
  IF x.t = "list"
  THEN (IF Len(x.v) = 0 THEN "false"
        ELSE IF Len(x.v) = 1 THEN (IF CellNotna(x.v[1]) THEN "true" ELSE "false")
        ELSE "raise")
  ELSE IF CellNotna(x) THEN "true" ELSE "false"

\* df[df[col].notna()].copy()
SelectSeq2(q, Test(_)) ==
  LET acc[i \in 0..Len(q)] ==
        IF i = 0 THEN << >>
        ELSE IF Test(q[i]) THEN Append(acc[i - 1], q[i]) ELSE acc[i - 1]
  IN  acc[Len(q)]

\* A variant of the filter that keeps every row.
FilterNotna_keep_all(df, col) == df

FilterNotna(df, col) ==
  LET keep(r) == CellNotna(r[col])
  IN  [cols |-> df.cols, rows |-> SelectSeq2(df.rows, keep)]

\* -------------------------------------------------------------- Aggregator
\* A variant of validate_and_filter that filters on SVLEN before SVTYPE.
validate_and_filter_svlen_first(df) ==
  IF Empty(df) THEN <<df, 0, 0>>
  ELSE LET df1 == FilterNotna(df, "SVLEN")
           df2 == FilterNotna(df1, "SVTYPE")
       IN  << df2, Len(df1.rows) - Len(df2.rows), Len(df.rows) - Len(df1.rows) >>

\* Aggregator.validate_and_filter: <<df', excluded_records, invalid_records>>
validate_and_filter(df) ==
  IF Empty(df) THEN <<df, 0, 0>>
  ELSE LET df1 == FilterNotna(df, "SVTYPE")
           df2 == FilterNotna(df1, "SVLEN")
       IN  << df2, Len(df.rows) - Len(df1.rows), Len(df1.rows) - Len(df2.rows) >>

GroupKeys == <<"CHROM", "POSITION", "SVTYPE">>

\* The groupby key of a row; rows with a missing key belong to no group.
HasGroupKey(r) == \A i \in 1..Len(GroupKeys) : CellNotna(r[GroupKeys[i]])

GroupKey(r) == [i \in 1..Len(GroupKeys) |-> r[GroupKeys[i]]]

\* ",".join(sorted(set(str(val) for val in x if val is not None))) over the
\* PRIMARY_CALLER values of the rows in r's group.
callers_per_variant(df, r) ==
  LET vals == { df.rows[j]["PRIMARY_CALLER"] :
                  j \in {i \in 1..Len(df.rows) :
                           HasGroupKey(df.rows[i]) /\ GroupKey(df.rows[i]) = GroupKey(r)} }
  IN  S(Join(SortedStrs({PyStr(v) : v \in {w \in vals : ~IsNone(w)}}), <<",">>))

\* Aggregator.compute_supp_callers: df.merge(callers_per_variant renamed
\* SUPP_CALLERS, how="left"); a SUPP_CALLERS column that df already has and
\* the new one both get merge's suffixes.
compute_supp_callers(df) ==
  IF Empty(df) THEN df
  ELSE LET agg(r) == IF HasGroupKey(r) THEN callers_per_variant(df, r) ELSE NaN
       IN  IF "SUPP_CALLERS" \in df.cols
           THEN [ cols |-> (df.cols \ {"SUPP_CALLERS"})
                             \cup {"SUPP_CALLERS_x", "SUPP_CALLERS_y"},
                  rows |-> [i \in 1..Len(df.rows) |->
                     [c \in (df.cols \ {"SUPP_CALLERS"})
                              \cup {"SUPP_CALLERS_x", "SUPP_CALLERS_y"} |->
                        IF c = "SUPP_CALLERS_x" THEN df.rows[i]["SUPP_CALLERS"]
                        ELSE IF c = "SUPP_CALLERS_y" THEN agg(df.rows[i])
                        ELSE df.rows[i][c]]] ]
           ELSE [ cols |-> df.cols \cup {"SUPP_CALLERS"},
                  rows |-> [i \in 1..Len(df.rows) |->
                     [c \in df.cols \cup {"SUPP_CALLERS"} |->
                        IF c = "SUPP_CALLERS" THEN agg(df.rows[i])
                        ELSE df.rows[i][c]]] ]

\* len(set(str(x).split(","))) if pd.notna(x) and x else 0
num_callers_of(x) ==
  IF CellNotna(x) /\ Truthy(x)
  THEN I(Cardinality(SeqToSet(Split(PyStr(x), ","))))
  ELSE I(0)

\* Aggregator.compute_num_callers
compute_num_callers(df) ==
  IF Empty(df) \/ "SUPP_CALLERS" \notin df.cols THEN df
  ELSE [ cols |-> df.cols \cup {"NUM_CALLERS"},
         rows |-> [i \in 1..Len(df.rows) |->
            [c \in df.cols \cup {"NUM_CALLERS"} |->
               IF c = "NUM_CALLERS" THEN num_callers_of(df.rows[i]["SUPP_CALLERS"])
               ELSE df.rows[i][c]]] ]

\* Aggregator.aggregate
aggregate(df) == compute_num_callers(compute_supp_callers(df))

\* ------------------------------------------------------------------ Writer
WRITABLE_INFO_FIELDS ==
  << [col |-> "SVTYPE",    tag |-> "SVTYPE",    conv |-> "str"],
     [col |-> "SVLEN",     tag |-> "SVLEN",     conv |-> "int"],
     [col |-> "END",       tag |-> "END",       conv |-> "int"],
     [col |-> "CHROM2",    tag |-> "CHR2",      conv |-> "str"],
     [col |-> "MATE_ID",   tag |-> "MATEID",    conv |-> "str"],
     [col |-> "HOMLEN",    tag |-> "HOMLEN",    conv |-> "int"],
     [col |-> "HOMSEQ",    tag |-> "HOMSEQ",    conv |-> "str"],
     [col |-> "IMPRECISE", tag |-> "IMPRECISE", conv |-> "flag"],
     [col |-> "PRECISE",   tag |-> "PRECISE",   conv |-> "flag"] >>

CONFIDENCE_INTERVAL_FIELDS == <<"CIPOS", "CIEND">>

\* The converter column of WRITABLE_INFO_FIELDS: str, int, or the flag lambda.
Convert(conv, x) ==
  CASE conv = "str"  -> S(PyStr(x))
    [] conv = "int"  -> PyInt(x)
    [] conv = "flag" -> IF Truthy(x) THEN B(TRUE) ELSE None

\* VcfWriter._add_computed_info_headers on the sequence of declared INFO ids.
AddIfMissing(ids, id) == IF id \in SeqToSet(ids) THEN ids ELSE Append(ids, id)

_add_computed_info_headers(ids) ==
  AddIfMissing(AddIfMissing(AddIfMissing(ids, "SUPP_CALLERS"), "PRIMARY_CALLER"),
               "NUM_CALLERS")

\* VcfWriter._create_lookup: key (str(CHROM), int(POSITION)) -> index of the
\* last row with that key.
LookupKey(r) == << PyStr(r["CHROM"]), PyInt(r["POSITION"]).v >>

\* A variant of _create_lookup in which the first row of a key wins.
_create_lookup_first_wins(df) ==
  [ key \in {LookupKey(df.rows[i]) : i \in 1..Len(df.rows)} |->
      CHOOSE i \in 1..Len(df.rows) :
        /\ LookupKey(df.rows[i]) = key
        /\ \A j \in 1..(i - 1) : LookupKey(df.rows[j]) # key ]

_create_lookup(df) ==
  [ key \in {LookupKey(df.rows[i]) : i \in 1..Len(df.rows)} |->
      CHOOSE i \in 1..Len(df.rows) :
        /\ LookupKey(df.rows[i]) = key
        /\ \A j \in (i + 1)..Len(df.rows) : LookupKey(df.rows[j]) # key ]

\* The loop over WRITABLE_INFO_FIELDS in _update_record; ValueError and
\* TypeError of pd.notna and of the converter are swallowed.
RECURSIVE UpdateWritable(_, _, _, _)
UpdateWritable(info, cols, row, k) ==
  IF k > Len(WRITABLE_INFO_FIELDS) THEN info
  ELSE LET e == WRITABLE_INFO_FIELDS[k]
           value == Convert(e.conv, row[e.col])
           info1 == IF e.col \in cols /\ Notna3(row[e.col]) = "true"
                       /\ ~IsRaise(value) /\ ~IsNone(value)
                    THEN Put(info, e.tag, value)
                    ELSE info
       IN  UpdateWritable(info1, cols, row, k + 1)

\* s.strip("()")
RECURSIVE StripParens(_)
StripParens(s) ==
  IF Len(s) > 0 /\ s[1] \in {"(", ")"} THEN StripParens(Tail(s))
  ELSE IF Len(s) > 0 /\ s[Len(s)] \in {"(", ")"} THEN StripParens(SubSeq(s, 1, Len(s) - 1))
  ELSE s

\* [int(x.strip()) for x in s.strip("()").split(",")]; ValueError escapes.
ParseCIString(s) ==
  LET parts == Split(StripParens(s), ",")
      ints  == [i \in 1..Len(parts) |-> ParseInt(parts[i])]
  IN  IF \E i \in 1..Len(ints) : IsRaise(ints[i]) THEN Raise("ValueError") ELSE L(ints)

\* VcfWriter._update_confidence_intervals: the INFO dict, or the exception.
RECURSIVE _update_confidence_intervals(_, _, _, _)
_update_confidence_intervals(info, cols, row, k) ==
  IF k > Len(CONFIDENCE_INTERVAL_FIELDS) THEN info
  ELSE LET ci_field == CONFIDENCE_INTERVAL_FIELDS[k]
           ci_value == row[ci_field]
           parsed   == IF ci_value.t = "str" THEN ParseCIString(ci_value.v) ELSE ci_value
       IN  IF ci_field \notin cols \/ IsNone(ci_value) \/ Notna3(ci_value) = "false"
           THEN _update_confidence_intervals(info, cols, row, k + 1)
           ELSE IF IsRaise(parsed) THEN parsed
           ELSE _update_confidence_intervals(Put(info, ci_field, parsed), cols, row, k + 1)

\* VcfWriter._update_caller_fields: pd.notna of a list of two or more
\* elements raises ValueError, which nothing catches.
_update_caller_fields(info, cols, row) ==
  LET sc  == row["SUPP_CALLERS"]
      pcl == row["PRIMARY_CALLER"]
      hasSc == "SUPP_CALLERS" \in cols
      hasPc == "PRIMARY_CALLER" \in cols
      supp_callers_str == PyStr(sc)
      parts == Split(supp_callers_str, ",")
      num_callers == Cardinality({i \in 1..Len(parts) : Len(Strip(parts[i])) > 0})
      info1 == IF hasSc /\ Notna3(sc) = "true"
               THEN Put(Put(info, "SUPP_CALLERS", L([i \in 1..Len(parts) |-> S(parts[i])])),
                        "NUM_CALLERS", I(num_callers))
               ELSE info
  IN  IF hasSc /\ Notna3(sc) = "raise" THEN Raise("ValueError")
      ELSE IF hasPc /\ Notna3(pcl) = "raise" THEN Raise("ValueError")
      ELSE IF hasPc /\ Notna3(pcl) = "true"
      THEN Put(info1, "PRIMARY_CALLER", S(PyStr(pcl)))
      ELSE info1

format_fields_to_update ==
  { "GT", "PSV", "LN", "DR", "ST", "QV", "TY", "RAL", "AAL", "CO", "PR", "SR", "GQ",
    "AF", "AD", "DP", "LO", "LR", "PE", "PL" }

\* A variant of NewFormatValue that also stores a value joined over the
\* samples with " | ".
NewFormatValue_joined(original_value, field_value0) ==
  LET field_value == IF field_value0.t = "str" /\ Upper(field_value0.v) \in Sentinels
                     THEN S(<<".">>) ELSE field_value0
      dot(x) == IF IsNone(x) THEN S(<<".">>) ELSE x
      parts == Split(field_value.v, ",")
      lst == IF field_value.t = "str" /\ Contains(field_value.v, <<",">>)
             THEN [i \in 1..Len(parts) |->
                     IF parts[i] = <<"N", "o", "n", "e">> THEN S(<<".">>) ELSE S(parts[i])]
             ELSE IF field_value # S(<<".">>) THEN << field_value >>
             ELSE original_value.v
  IN  IF field_value0.t \in {"none", "nan"} THEN original_value
      ELSE IF field_value = S(<<"-">>) THEN original_value
      ELSE IF original_value.t = "list" THEN L([i \in 1..Len(lst) |-> dot(lst[i])])
      ELSE field_value

\* The value _update_format_fields stores for one listed field of the target
\* sample, given the sample's original value and the row's value.
NewFormatValue(original_value, field_value0) ==
  LET field_value == IF field_value0.t = "str" /\ Upper(field_value0.v) \in Sentinels
                     THEN S(<<".">>) ELSE field_value0
      dot(x) == IF IsNone(x) THEN S(<<".">>) ELSE x
      parts == Split(field_value.v, ",")
      lst == IF field_value.t = "str" /\ Contains(field_value.v, <<",">>)
             THEN [i \in 1..Len(parts) |->
                     IF parts[i] = <<"N", "o", "n", "e">> THEN S(<<".">>) ELSE S(parts[i])]
             ELSE IF field_value # S(<<".">>) THEN << field_value >>
             ELSE original_value.v
  IN  IF field_value0.t \in {"none", "nan"} THEN original_value
      ELSE IF field_value = S(<<"-">>) THEN original_value
      ELSE IF field_value.t = "str" /\ Contains(field_value.v, <<" ", "|", " ">>)
      THEN original_value
      ELSE IF original_value.t = "list" THEN L([i \in 1..Len(lst) |-> dot(lst[i])])
      ELSE field_value

\* A variant of target_sample_idx that always names the first sample.
target_sample_idx_first_slot(record_info, calls) == 0

\* The sample (0-based) _update_format_fields writes to.
target_sample_idx(record_info, calls) ==
  IF Len(calls) > 1
  THEN FirstOneBit(GetDefault(record_info, "SUPP_VEC", S(<< >>)))
  ELSE 0

\* VcfWriter._update_format_fields: the calls of the record after the update.
_update_format_fields(record_info, calls, cols, row) ==
  LET num_samples == Len(calls)
      upd(i) ==
        [f \in DOMAIN calls[i] |->
           IF i = target_sample_idx(record_info, calls) + 1
              /\ f \in format_fields_to_update /\ f \in cols
           THEN NewFormatValue(calls[i][f], row[f])
           ELSE calls[i][f]]
      cleanId(d) ==
        IF "ID" \in DOMAIN d /\ d["ID"].t = "str"
           /\ Upper(d["ID"].v) \in { <<"N", "A", "N">>, <<"N", "A">> }
        THEN Put(d, "ID", S(<<".">>))
        ELSE d
  IN  [i \in 1..num_samples |-> cleanId(upd(i))]

\* A variant of _update_record that cleans the sample IDs of a record even
\* when no dataset row matches it.
_update_record_cleaning_unmatched(record, df, df_lookup) ==
  LET key == <<record.CHROM, record.POS>>
      row_data == df.rows[df_lookup[key]]
      info1 == UpdateWritable(record.INFO, df.cols, row_data, 1)
      info2 == _update_confidence_intervals(info1, df.cols, row_data, 1)
      info3 == _update_caller_fields(info2, df.cols, row_data)
  IN  IF key \notin DOMAIN df_lookup
      THEN [record EXCEPT !.calls = _update_format_fields(record.INFO, record.calls,
                                                          {}, EmptyDict)]
      ELSE IF IsExc(info2) THEN info2
      ELSE IF IsExc(info3) THEN info3
      ELSE [record EXCEPT !.INFO = info3,
                          !.calls = _update_format_fields(info3, record.calls,
                                                          df.cols, row_data)]

\* VcfWriter._update_record: the record as it is written, or the exception.
_update_record(record, df, df_lookup) ==
  LET key == <<record.CHROM, record.POS>>
      row_data == df.rows[df_lookup[key]]
      info1 == UpdateWritable(record.INFO, df.cols, row_data, 1)
      info2 == _update_confidence_intervals(info1, df.cols, row_data, 1)
      info3 == _update_caller_fields(info2, df.cols, row_data)
  IN  IF key \notin DOMAIN df_lookup THEN record
      ELSE IF IsExc(info2) THEN info2
      ELSE IF IsExc(info3) THEN info3
      ELSE [record EXCEPT !.INFO = info3,
                          !.calls = _update_format_fields(info3, record.calls,
                                                          df.cols, row_data)]

\* A variant of the sort key that compares positions before chromosomes.
KeyLess_position_first(a, b) ==
  a.POS < b.POS \/ (a.POS = b.POS /\ StrLess(a.CHROM, b.CHROM))

\* The order of the sort key (r.CHROM, r.POS): chromosome names compare as
\* strings, positions as integers.
KeyLess(a, b) ==
  StrLess(a.CHROM, b.CHROM) \/ (a.CHROM = b.CHROM /\ a.POS < b.POS)

\* A variant of the sort that keeps one record per sort key, the last one.
SortRecords_one_per_key(q) ==
  LET n == Len(q)
      kept == { i \in 1..n : \A j \in (i + 1)..n :
                  <<q[j].CHROM, q[j].POS>> # <<q[i].CHROM, q[i].POS>> }
      place(i) == Cardinality({ j \in kept : KeyLess(q[j], q[i]) }) + 1
  IN  [p \in 1..Cardinality(kept) |-> q[CHOOSE i \in kept : place(i) = p]]

\* records.sort(key=lambda r: (r.CHROM, r.POS)): list.sort is stable, so a
\* record's place is the number of records with a smaller key plus the number
\* of earlier records with an equal key.
SortRecords(q) ==
  LET n == Len(q)
      place(i) == Cardinality({ j \in 1..n :
                     \/ KeyLess(q[j], q[i])
                     \/ (~KeyLess(q[i], q[j]) /\ j < i) }) + 1
  IN  [p \in 1..n |-> q[CHOOSE i \in 1..n : place(i) = p]]

\* ------------------------------------------------------------ input files
chr1  == <<"c", "h", "r", "1">>
chr10 == <<"c", "h", "r", "1", "0">>
chr2  == <<"c", "h", "r", "2">>
str_DEL == <<"D", "E", "L">>
str_DUP == <<"D", "U", "P">>
str_delly == <<"d", "e", "l", "l", "y">>

\* A vcfpy.Record: the eight fixed columns, the INFO dict, the FORMAT keys and
\* one call.data dict per sample.
Record(chrom, pos, ids, info, calls) ==
  [ CHROM  |-> chrom,
    POS    |-> pos,
    ID     |-> ids,
    REF    |-> <<"N">>,
    ALT    |-> << <<"<", "D", "E", "L", ">">> >>,
    QUAL   |-> None,
    FILTER |-> << <<"P", "A", "S", "S">> >>,
    INFO   |-> info,
    FORMAT |-> IF Len(calls) > 0 THEN <<"GT", "ID">> ELSE << >>,
    calls  |-> calls ]

\* The dict with the entries of d whose value is present.
Present(d) == [k \in {j \in DOMAIN d : ~IsNone(d[j])} |-> d[k]]

\* INFO ids a caller's header declares before enrichment.
BaseHeader == <<"SVTYPE", "SVLEN", "END", "SUPP_VEC", "EUK_CALLER">>

\* All files of at most MaxRecords records over a pool of records.
FilesOver(pool) ==
  UNION { [1..n -> pool] : n \in 0..MaxRecords }

VARIABLES
  label,             \* VcfType of the run: "bcf" or "survivor"
  infile,            \* the file at vcf_path: header INFO ids and records
  pc,                \* position of VcfProcessor.process
  reader_open,       \* VcfReader._reader holds an open file handle
  idx,               \* records consumed from VcfReader.read_records
  records,           \* parse_vcf's list of row dicts
  df,                \* the DataFrame
  excluded_records,  \* validate_and_filter's counters
  invalid_records,
  should_write,      \* VcfWriter.should_write
  writer_df,         \* VcfWriter.df
  out,               \* the file at VcfWriter.output_path
  gz,                \* the file at output_path + ".gz"
  tbi,               \* the tabix index exists
  warnings,          \* warnings printed so far
  returned,          \* the value process() returned, or None
  error,             \* the stage whose exception escaped process(), or "none"
  run,               \* 1 for the first run, 2 for a run on the first run's output
  first              \* the output file of the first run

vars == << label, infile, pc, reader_open, idx, records, df, excluded_records,
           invalid_records, should_write, writer_df, out, gz, tbi, warnings,
           returned, error, run, first >>

NoFile == [exists |-> FALSE, open |-> FALSE, header |-> << >>, recs |-> << >>]

InitOver(labels, pool) ==
  /\ label \in labels
  /\ \E recs \in FilesOver(pool) :
       infile = [exists |-> TRUE, open |-> FALSE, header |-> BaseHeader, recs |-> recs]
  /\ pc = "start"
  /\ reader_open = FALSE
  /\ idx = 0
  /\ records = << >>
  /\ df = NoDf
  /\ excluded_records = 0
  /\ invalid_records = 0
  /\ should_write = FALSE
  /\ writer_df = NoDf
  /\ out = NoFile
  /\ gz = NoFile
  /\ tbi = FALSE
  /\ warnings = {}
  /\ returned = None
  /\ error = "none"
  /\ run = 1
  /\ first = NoFile

\* ---------------------------------------------------------------- parse_vcf
\* VcfReader(file_path): vcfpy opens the file, or raises when it cannot be
\* opened or its header cannot be parsed.
OpenReader ==
  /\ pc = "start"
  /\ \E ok \in BOOLEAN :
       IF ok THEN /\ reader_open' = TRUE
                  /\ pc' = "parsing"
                  /\ UNCHANGED error
             ELSE /\ reader_open' = FALSE
                  /\ pc' = "failed"
                  /\ error' = "open"
  /\ UNCHANGED << label, infile, idx, records, df, excluded_records, invalid_records,
                  should_write, writer_df, out, gz, tbi, warnings, returned, run, first >>

\* A variant of read_records that counts the records from 1.
read_records_one_based(recs, pos) ==
  [ i \in 1..(Len(recs) - pos) |-> << i, recs[pos + i] >> ]

\* VcfReader.read_records: the pairs one iteration yields when the underlying
\* reader has already given pos records.  enumerate counts from 0 in every
\* iteration; the reader never rewinds.
read_records(recs, pos) ==
  [ i \in 1..(Len(recs) - pos) |-> << i - 1, recs[pos + i] >> ]

\* One iteration of "for idx, record in vcf_reader.read_records()"; idx is
\* the number of pairs the loop has taken.
ParseRecord ==
  /\ pc = "parsing"
  /\ idx < Len(infile.recs)
  /\ \E pair \in { read_records(infile.recs, 0)[idx + 1] } :
     \E record_data \in { parse_record(label, pair[1], pair[2]) } :
         IF IsExc(record_data)
         THEN /\ pc' = "failed"
              /\ error' = "parse"
              /\ UNCHANGED << records >>
         ELSE /\ records' = Append(records, record_data)
              /\ pc' = "parsing"
              /\ UNCHANGED error
  /\ idx' = idx + 1
  /\ UNCHANGED << label, infile, reader_open, df, excluded_records, invalid_records,
                  should_write, writer_df, out, gz, tbi, warnings, returned, run, first >>

\* The iterator is exhausted: vcf_reader.close() and pd.DataFrame(records).
CloseReader ==
  /\ pc = "parsing"
  /\ idx = Len(infile.recs)
  /\ reader_open' = FALSE
  /\ df' = DataFrame(records)
  /\ pc' = IF Empty(DataFrame(records)) THEN "parsed" ELSE "validate"
  /\ UNCHANGED << label, infile, idx, records, excluded_records, invalid_records,
                  should_write, writer_df, out, gz, tbi, warnings, returned, error, run, first >>

\* Stage 8: Aggregator.validate_and_filter.
ValidateAndFilter ==
  /\ pc = "validate"
  /\ LET r == validate_and_filter(df)
     IN  /\ df' = r[1]
         /\ excluded_records' = r[2]
         /\ invalid_records' = r[3]
  /\ pc' = IF should_aggregate(label) THEN "supp_callers" ELSE "parsed"
  /\ UNCHANGED << label, infile, reader_open, idx, records, should_write, writer_df,
                  out, gz, tbi, warnings, returned, error, run, first >>

\* Stage 9, first half: Aggregator.compute_supp_callers.
ComputeSuppCallers ==
  /\ pc = "supp_callers"
  /\ df' = compute_supp_callers(df)
  /\ pc' = "num_callers"
  /\ UNCHANGED << label, infile, reader_open, idx, records, excluded_records,
                  invalid_records, should_write, writer_df, out, gz, tbi, warnings,
                  returned, error, run, first >>

\* Stage 9, second half: Aggregator.compute_num_callers.
ComputeNumCallers ==
  /\ pc = "num_callers"
  /\ df' = compute_num_callers(df)
  /\ pc' = "parsed"
  /\ UNCHANGED << label, infile, reader_open, idx, records, excluded_records,
                  invalid_records, should_write, writer_df, out, gz, tbi, warnings,
                  returned, error, run, first >>

\* --------------------------------------------------- VcfProcessor / Writer
\* The arguments VcfProcessor.process passes to write_and_compress.
compress == TRUE
keep_uncompressed == TRUE

\* VcfWriter.__init__ as process() calls it.
NewWriter ==
  /\ pc = "parsed"
  /\ writer_df' = df
  /\ should_write' = ~Empty(df)
  /\ pc' = "write"
  /\ UNCHANGED << label, infile, reader_open, idx, records, df, excluded_records,
                  invalid_records, out, gz, tbi, warnings, returned, error, run, first >>

\* VcfWriter.write up to the opening of the vcfpy.Writer: the warning, the
\* header lines, and the output file created with its header.
StartWrite ==
  /\ pc = "write"
  /\ warnings' = IF should_write THEN warnings ELSE warnings \cup {"no_data"}
  /\ out' = [ exists |-> TRUE, open |-> TRUE,
              header |-> _add_computed_info_headers(infile.header),
              recs   |-> << >> ]
  /\ pc' = "writing"
  /\ UNCHANGED << label, infile, reader_open, idx, records, df, excluded_records,
                  invalid_records, should_write, writer_df, gz, tbi, returned, error, run, first >>

\* One iteration of "for record in reader" in VcfWriter.write: an exception
\* of _update_record or of writer.write_record leaves the with blocks, which
\* close both files and remove nothing.
WriteRecord ==
  /\ pc = "writing"
  /\ Len(out.recs) < Len(infile.recs)
  /\ \E io_ok \in BOOLEAN :
     \E updated \in { _update_record(infile.recs[Len(out.recs) + 1], writer_df,
                                     IF should_write THEN _create_lookup(writer_df)
                                     ELSE EmptyDict) } :
         IF IsExc(updated) \/ ~io_ok
         THEN /\ out' = [out EXCEPT !.open = FALSE]
              /\ pc' = "failed"
              /\ error' = "write"
         ELSE /\ out' = [out EXCEPT !.recs = Append(out.recs, updated)]
              /\ pc' = "writing"
              /\ UNCHANGED error
  /\ UNCHANGED << label, infile, reader_open, idx, records, df, excluded_records,
                  invalid_records, should_write, writer_df, gz, tbi, warnings,
                  returned, run, first >>

\* The reader of the original file is exhausted: both files are closed.
EndWrite ==
  /\ pc = "writing"
  /\ Len(out.recs) = Len(infile.recs)
  /\ out' = [out EXCEPT !.open = FALSE]
  /\ IF compress
     THEN /\ pc' = "sort"
          /\ UNCHANGED returned
     ELSE /\ pc' = "done"
          /\ returned' = S(<<"v", "c", "f">>)
  /\ UNCHANGED << label, infile, reader_open, idx, records, df, excluded_records,
                  invalid_records, should_write, writer_df, gz, tbi, warnings, error, run, first >>

\* compress_and_index, the sort: the records are re-read, sorted, written to
\* output_path + ".sorted" and moved over output_path; any exception is a
\* warning and the .sorted file is removed.
SortStep ==
  /\ pc = "sort"
  /\ \E ok \in BOOLEAN :
       IF ok THEN /\ out' = [out EXCEPT !.recs = SortRecords(out.recs)]
                  /\ UNCHANGED warnings
             ELSE /\ warnings' = warnings \cup {"sort"}
                  /\ UNCHANGED out
  /\ pc' = "compress"
  /\ UNCHANGED << label, infile, reader_open, idx, records, df, excluded_records,
                  invalid_records, should_write, writer_df, gz, tbi, returned, error, run, first >>

\* compress_and_index, pysam.tabix_compress: called outside any try block.
CompressStep ==
  /\ pc = "compress"
  /\ \E ok \in BOOLEAN :
       IF ok THEN /\ gz' = [out EXCEPT !.exists = TRUE]
                  /\ pc' = "index"
                  /\ UNCHANGED error
             ELSE /\ UNCHANGED gz
                  /\ pc' = "failed"
                  /\ error' = "compress"
  /\ UNCHANGED << label, infile, reader_open, idx, records, df, excluded_records,
                  invalid_records, should_write, writer_df, out, tbi, warnings,
                  returned, run, first >>

\* compress_and_index, pysam.tabix_index inside try/except, then the removal
\* of the uncompressed file unless it is kept, and the return.
IndexStep ==
  /\ pc = "index"
  /\ \E ok \in BOOLEAN :
       IF ok THEN /\ tbi' = TRUE
                  /\ UNCHANGED warnings
             ELSE /\ warnings' = warnings \cup {"index"}
                  /\ UNCHANGED tbi
  /\ out' = IF keep_uncompressed THEN out ELSE NoFile
  /\ returned' = S(<<"v", "c", "f", ".", "g", "z">>)
  /\ pc' = "done"
  /\ UNCHANGED << label, infile, reader_open, idx, records, df, excluded_records,
                  invalid_records, should_write, writer_df, gz, error, run, first >>

\* A second run of process() on the enriched file the first run left.
Rerun ==
  /\ pc = "done"
  /\ run = 1
  /\ out.exists
  /\ first' = out
  /\ infile' = out
  /\ run' = 2
  /\ pc' = "start"
  /\ reader_open' = FALSE
  /\ idx' = 0
  /\ records' = << >>
  /\ df' = NoDf
  /\ excluded_records' = 0
  /\ invalid_records' = 0
  /\ should_write' = FALSE
  /\ writer_df' = NoDf
  /\ out' = NoFile
  /\ gz' = NoFile
  /\ tbi' = FALSE
  /\ warnings' = {}
  /\ returned' = None
  /\ error' = "none"
  /\ UNCHANGED label

Next ==
  \/ OpenReader
  \/ ParseRecord
  \/ CloseReader
  \/ ValidateAndFilter
  \/ ComputeSuppCallers
  \/ ComputeNumCallers
  \/ NewWriter
  \/ StartWrite
  \/ WriteRecord
  \/ EndWrite
  \/ SortStep
  \/ CompressStep
  \/ IndexStep
  \/ Rerun

\* ------------------------------------------------------------------- inputs
\* Records of a merged file: two positions whose chromosome names sort as
\* strings, two callers, records with and without SVTYPE and SVLEN (shape
\* "neither" has none of the two).  A delly
\* record has one sample; a dysgu record has two sample slots, the second one
\* active (SUPP_VEC = 01) and the first one empty with the NaN sentinel as its
\* FORMAT ID.  The record ID follows SURVIVOR's <caller>_<SVTYPE> convention.
MergedRecord(k, shape, c) ==
  Record(k[1], k[2], << c \o <<"_">> \o str_DEL >>,
         Present([ SVTYPE     |-> IF shape \in {"no_svtype", "neither"}
                                  THEN None ELSE S(str_DEL),
                   SVLEN      |-> IF shape \in {"no_svlen", "neither"}
                                  THEN None ELSE I(-5),
                   SUPP_VEC   |-> IF c = str_dysgu THEN S(<<"0", "1">>) ELSE None,
                   EUK_CALLER |-> S(c) ]),
         IF c = str_dysgu
         THEN << [ GT |-> S(<<".", "/", ".">>), ID |-> S(<<"N", "a", "N">>) ],
                 [ GT |-> S(<<"0", "/", "1">>), ID |-> S(c \o <<"_", "1">>) ] >>
         ELSE << [ GT |-> S(<<"0", "/", "1">>), ID |-> S(c \o <<"_", "1">>) ] >>)

MainPool ==
  { MergedRecord(k, shape, c) :
      k \in { <<chr10, 2000>>, <<chr2, 1000>> },
      shape \in { "ok", "no_svtype", "no_svlen" },
      c \in { str_delly, str_dysgu } }

Init == InitOver({"bcf", "survivor"}, MainPool)

Spec == Init /\ [][Next]_vars

\* Records for the validation: every combination of SVTYPE and SVLEN present
\* or missing, at two positions.
ValidPool ==
  { MergedRecord(k, shape, str_delly) :
      k \in { <<chr10, 2000>>, <<chr2, 1000>> },
      shape \in { "ok", "no_svtype", "no_svlen", "neither" } }

InitValid == InitOver({"bcf", "survivor"}, ValidPool)

SpecValid == InitValid /\ [][Next]_vars

\* Records with confidence intervals, one per caller strategy: CIPOS and
\* CIEND both numeric, CIPOS non-numeric, or CIEND a list too short.
CiRecord(c, shape) ==
  Record(chr1, 1000, << c \o <<"_">> \o str_DEL >>,
         [ SVTYPE |-> S(str_DEL), SVLEN |-> I(5), EUK_CALLER |-> S(c),
           CIPOS  |-> IF shape = "cipos_text"
                      THEN L(<< S(<<"a">>), S(<<"b">>) >>)
                      ELSE L(<< I(-10), I(10) >>),
           CIEND  |-> IF shape = "ciend_short"
                      THEN L(<< I(-20) >>)
                      ELSE L(<< I(-20), I(20) >>) ],
         << [ GT |-> S(<<"0", "/", "1">>), ID |-> S(c \o <<"_", "1">>) ] >>)

CiPool ==
  { CiRecord(c, shape) :
      c \in { str_delly, str_sniffles, str_tiddit, str_dysgu, str_cutesv, str_gridss },
      shape \in { "numeric", "cipos_text", "ciend_short" } }

InitCi == InitOver({"bcf"}, CiPool)

SpecCi == InitCi /\ [][Next]_vars

\* Records with one caller-specific numeric INFO field each, holding a number
\* or a text that is no number.
FieldRecord(c, f, v) ==
  Record(chr1, 1000, << c \o <<"_">> \o str_DEL >>,
         [ k \in {"SVTYPE", "SVLEN", "EUK_CALLER", f} |->
             CASE k = "SVTYPE"     -> S(str_DEL)
               [] k = "SVLEN"      -> I(5)
               [] k = "EUK_CALLER" -> S(c)
               [] OTHER            -> v ],
         << [ GT |-> S(<<"0", "/", "1">>), ID |-> S(c \o <<"_", "1">>) ] >>)

str_abc == <<"a", "b", "c">>

FieldPool ==
  UNION { { FieldRecord(e[1], e[2], e[3]), FieldRecord(e[1], e[2], S(str_abc)) } :
            e \in { <<str_sniffles, "SUPPORT", I(3)>>,
                    <<str_tiddit, "CILEN", I(7)>>,
                    <<str_cutesv, "RE", I(4)>>,
                    <<str_cutesv, "AF", F(5)>>,
                    <<str_dysgu, "NMP", I(2)>>,
                    <<str_dysgu, "MAPQ", F(600)>> } }

InitField == InitOver({"bcf"}, FieldPool)

SpecField == InitField /\ [][Next]_vars

\* Caller names as a merged file spells them, each with the strategy the
\* dispatch rule gives it: mixed case, a version suffix, two names in one
\* string, an unknown name, the empty string and no name at all.
NameCases ==
    { << S(<<"S", "n", "i", "f", "f", "l", "e", "s", "2">>), "sniffles" >>,
      << S(<<"T", "I", "D", "D", "I", "T">>), "tiddit" >>,
      << S(<<"d", "y", "s", "g", "u">>), "dysgu" >>,
      << S(<<"c", "u", "t", "e", "S", "V">>), "cutesv" >>,
      << S(<<"G", "R", "I", "D", "S", "S">>), "gridss" >>,
      << S(<<"d", "e", "l", "l", "y">>), "generic" >>,
      << S(<< >>), "generic" >>,
      << S(<<"g", "r", "i", "d", "s", "s", "_", "c", "u", "t", "e", "s", "v">>), "cutesv" >>,
      << S(<<"t", "i", "d", "d", "i", "t", "_", "s", "n", "i", "f", "f", "l", "e", "s">>), "sniffles" >>,
      << S(<<"c", "u", "t", "e", "s", "v", "_", "d", "y", "s", "g", "u">>), "dysgu" >>,
      << None, "generic" >> }

\* A record named by one caller-name string.  It has no SVTYPE and no MATEID,
\* and numeric fields as texts, so that each strategy leaves its own mark on
\* the row: Sniffles turns SUPPORT into an integer, TIDDIT turns OA into a
\* string, Dysgu turns NMP and cuteSV turns RE into an integer, GRIDSS sets
\* SVTYPE to BND.
NameRecord(name) ==
  Record(chr1, 1000, << <<"s", "v">> >>,
         Present([ SVLEN |-> I(5), EUK_CALLER |-> name,
                   SUPPORT |-> S(<<"3">>), OA |-> I(1),
                   NMP |-> S(<<"2">>), RE |-> S(<<"4">>) ]),
         << [ GT |-> S(<<"0", "/", "1">>), ID |-> S(<<"s", "_", "1">>) ] >>)

NamePool == { NameRecord(e[1]) : e \in NameCases }

InitName == InitOver({"bcf"}, NamePool)

SpecName == InitName /\ [][Next]_vars

\* Records that carry the INFO tags the Writer writes back and one it does
\* not know (DP), each record at a position of its own: one with scalar
\* values, one whose MATEID is a list as a header with Number=. gives it, and
\* one whose ID names another SV type than its INFO does.
FrameRecord(shape) ==
  Record(IF shape = "id_type" THEN chr2 ELSE chr1,
         IF shape = "mate_list" THEN 2000 ELSE 1000,
         << str_delly \o <<"_">> \o (IF shape = "id_type" THEN str_DUP ELSE str_DEL) >>,
         Present([ SVTYPE     |-> S(str_DEL),
                   SVLEN      |-> I(-5),
                   END        |-> I(1500),
                   EUK_CALLER |-> S(str_delly),
                   CHR2       |-> S(chr1),
                   HOMLEN     |-> I(3),
                   HOMSEQ     |-> S(<<"A", "C">>),
                   IMPRECISE  |-> B(TRUE),
                   CIPOS      |-> L(<< I(-10), I(10) >>),
                   DP         |-> I(9),
                   MATEID     |-> IF shape = "mate_list"
                                  THEN L(<< S(<<"m", "1">>) >>) ELSE None ]),
         << [ GT |-> S(<<"0", "/", "1">>), ID |-> S(str_delly \o <<"_", "1">>) ] >>)

FramePool == { FrameRecord(shape) : shape \in { "scalar", "mate_list", "id_type" } }

InitFrame == InitOver({"bcf", "survivor"}, FramePool)

SpecFrame == InitFrame /\ [][Next]_vars

\* Records of a merged file with several sample slots, each at a position of
\* its own and named by its SUPP_VEC.  An empty slot holds the NaN sentinel in
\* every field; the delly slot has a two-element DR list, the dysgu slot the
\* NA sentinel as DR.  FORMAT is GT:DR:ID.
EmptySlot == [ GT |-> S(<<".", "/", ".">>), DR |-> S(<<"N", "a", "N">>),
               ID |-> S(<<"N", "a", "N">>) ]

DellySlot == [ GT |-> S(<<"0", "/", "1">>), DR |-> L(<< I(3), I(4) >>),
               ID |-> S(str_delly \o <<"_", "1">>) ]

DysguSlot == [ GT |-> S(<<"1", "/", "1">>), DR |-> S(<<"N", "A">>),
               ID |-> S(str_dysgu \o <<"_", "2">>) ]

SampleShapes ==
  { [ vec |-> <<"0", "1", "0", "0">>, chrom |-> chr1, pos |-> 1000,
      calls |-> << EmptySlot, DellySlot, EmptySlot, EmptySlot >> ],
    [ vec |-> <<"0", "1", "1", "0">>, chrom |-> chr1, pos |-> 2000,
      calls |-> << EmptySlot, DellySlot, DysguSlot, EmptySlot >> ],
    [ vec |-> <<"1">>, chrom |-> chr2, pos |-> 1000,
      calls |-> << DellySlot >> ],
    [ vec |-> <<"0", "0">>, chrom |-> chr2, pos |-> 2000,
      calls |-> << EmptySlot, EmptySlot >> ] }

SampleRecord(shape) ==
  [ Record(shape.chrom, shape.pos, << str_delly \o <<"_">> \o str_DEL >>,
           [ SVTYPE |-> S(str_DEL), SVLEN |-> I(5), EUK_CALLER |-> S(str_delly),
             SUPP_VEC |-> S(shape.vec) ],
           shape.calls)
    EXCEPT !.FORMAT = <<"GT", "DR", "ID">> ]

SamplePool == { SampleRecord(shape) : shape \in SampleShapes }

InitSample == InitOver({"bcf", "survivor"}, SamplePool)

SpecSample == InitSample /\ [][Next]_vars

\* Dysgu records at position 10000 whose CIPOS95 and CIEND95 widths are even,
\* odd, one-element lists, negative or zero, with END = 10500 or without END.
Ci95Shapes ==
  { [ w |-> I(20), we |-> I(30), end |-> I(10500) ],
    [ w |-> I(21), we |-> I(31), end |-> I(10500) ],
    [ w |-> L(<< I(20) >>), we |-> L(<< I(30) >>), end |-> I(10500) ],
    [ w |-> I(-3), we |-> I(-3), end |-> I(10500) ],
    [ w |-> I(0), we |-> I(30), end |-> None ] }

Ci95Record(shape) ==
  Record(chr1, 10000, << str_dysgu \o <<"_">> \o str_DEL >>,
         Present([ SVTYPE |-> S(str_DEL), SVLEN |-> I(5), EUK_CALLER |-> S(str_dysgu),
                   END |-> shape.end, CIPOS95 |-> shape.w, CIEND95 |-> shape.we ]),
         << [ GT |-> S(<<"0", "/", "1">>), ID |-> S(str_dysgu \o <<"_", "1">>) ] >>)

Ci95Pool == { Ci95Record(shape) : shape \in Ci95Shapes }

InitCi95 == InitOver({"bcf", "survivor"}, Ci95Pool)

SpecCi95 == InitCi95 /\ [][Next]_vars

\* GRIDSS records whose SVTYPE is absent, present without a value, or DEL,
\* with and without a MATEID.  The record ID names the caller and the type DEL.
GridssRecord(svtype, mateid) ==
  Record(chr1, 1000, << str_gridss \o <<"_">> \o str_DEL >>,
         [ k \in {"SVLEN", "EUK_CALLER"}
                   \cup (IF svtype = "absent" THEN {} ELSE {"SVTYPE"})
                   \cup (IF mateid THEN {"MATEID"} ELSE {}) |->
             CASE k = "SVLEN"      -> I(5)
               [] k = "EUK_CALLER" -> S(str_gridss)
               [] k = "SVTYPE"     -> IF svtype = "none" THEN None ELSE S(str_DEL)
               [] k = "MATEID"     -> S(<<"m", "1">>) ],
         << [ GT |-> S(<<"0", "/", "1">>), ID |-> S(str_gridss \o <<"_", "1">>) ] >>)

GridssPool ==
  { GridssRecord(svtype, mateid) :
      svtype \in {"absent", "none", "DEL"}, mateid \in BOOLEAN }

InitGridss == InitOver({"bcf", "survivor"}, GridssPool)

SpecGridss == InitGridss /\ [][Next]_vars

\* Records of a BCF-convention merged file for the aggregation: three
\* positions, two SV types, and the callers delly, dysgu or none named.
AggRecord(k, t, c) ==
  Record(k[1], k[2], << <<"s", "v">> >>,
         Present([ SVTYPE |-> S(t), SVLEN |-> I(-5), EUK_CALLER |-> c ]),
         << [ GT |-> S(<<"0", "/", "1">>), ID |-> S(<<"s", "_", "1">>) ] >>)

AggPool ==
  { AggRecord(k, t, c) :
      k \in { <<chr1, 1000>>, <<chr1, 2000>>, <<chr2, 1000>> },
      t \in { str_DEL, str_DUP },
      c \in { S(str_delly), S(str_dysgu) } }
  \cup { AggRecord(<<chr1, 1000>>, t, None) : t \in { str_DEL, str_DUP } }

InitAgg == InitOver({"bcf"}, AggPool)

SpecAgg == InitAgg /\ [][Next]_vars

\* Records whose raw SVLEN takes every encoding a file can give it: absent, a
\* negative integer, a one-element or empty list, a numeric or non-numeric
\* string.
SvlenRecord(v, c) ==
  Record(chr1, 1000, << c \o <<"_">> \o str_DEL >>,
         Present([ SVTYPE |-> S(str_DEL), SVLEN |-> v, EUK_CALLER |-> S(c) ]),
         << [ GT |-> S(<<"0", "/", "1">>), ID |-> S(c \o <<"_", "1">>) ] >>)

SvlenPool ==
  { SvlenRecord(v, c) :
      v \in { None, I(-5), L(<< I(-5) >>), L(<< >>), S(<<"7">>),
              S(<<"a", "b", "c">>) },
      c \in { str_delly, str_sniffles } }

InitSvlen == InitOver({"bcf", "survivor"}, SvlenPool)

SpecSvlen == InitSvlen /\ [][Next]_vars

\* ------------------------------------------------------------------ claims
\* How often x occurs in the sequence q.
Occurrences(q, x) == Cardinality({ i \in 1..Len(q) : q[i] = x })

\* p and q hold the same records, each as often.
SameRecords(p, q) ==
  /\ Len(p) = Len(q)
  /\ \A i \in 1..Len(p) : Occurrences(p, p[i]) = Occurrences(q, p[i])

\* The records write() emits for the original file, in file order.
Emitted ==
  [ i \in 1..Len(infile.recs) |->
      _update_record(infile.recs[i], writer_df,
                     IF should_write THEN _create_lookup(writer_df) ELSE EmptyDict) ]

\* The i-th record of the original file has no row in the Writer's dataset.
IsExcluded(i) ==
  \A j \in 1..Len(writer_df.rows) : writer_df.rows[j]["unique_id"] # I(i - 1)

\* Some dataset row has the (CHROM, POSITION) of the record.
HasRow(record) ==
  should_write /\ <<record.CHROM, record.POS>> \in DOMAIN _create_lookup(writer_df)

\* The output file holds the written records in the order of the original.
InWriteOrder == pc \in {"writing", "sort"}

WritableTags ==
  { "SVTYPE", "SVLEN", "END", "CHR2", "MATEID", "HOMLEN", "HOMSEQ", "IMPRECISE",
    "PRECISE", "CIPOS", "CIEND", "SUPP_CALLERS", "NUM_CALLERS", "PRIMARY_CALLER" }

FixedColumnsSame(o, w) ==
  /\ w.CHROM = o.CHROM /\ w.POS = o.POS /\ w.ID = o.ID /\ w.REF = o.REF
  /\ w.ALT = o.ALT /\ w.QUAL = o.QUAL /\ w.FILTER = o.FILTER

OtherInfoSame(o, w) ==
  \A k \in (DOMAIN o.INFO \cup DOMAIN w.INFO) \ WritableTags :
    k \in DOMAIN o.INFO /\ k \in DOMAIN w.INFO /\ o.INFO[k] = w.INFO[k]

\* A sample ID that is the NaN or NA sentinel, replaced by ".".
IdNormalized(old, new) ==
  old.t = "str" /\ Upper(old.v) \in { <<"N", "A", "N">>, <<"N", "A">> } /\ new = S(<<".">>)

\* Every FORMAT field outside the Writer's list is unchanged in every sample;
\* with idToo, a sample's ID may instead have been normalized.
UnlistedFormatSame(o, w, idToo) ==
  /\ w.FORMAT = o.FORMAT
  /\ Len(w.calls) = Len(o.calls)
  /\ \A j \in 1..Len(o.calls) :
       /\ DOMAIN w.calls[j] = DOMAIN o.calls[j]
       /\ \A f \in DOMAIN o.calls[j] \ format_fields_to_update :
            \/ w.calls[j][f] = o.calls[j][f]
            \/ idToo /\ f = "ID" /\ IdNormalized(o.calls[j][f], w.calls[j][f])

\* C1: write followed by compress_and_index gives an output with exactly as
\* many records as the input, whatever rows the dataset holds: from the end of
\* write() on the output file holds one record per input record, and so does
\* the compressed file once it exists.
C1_RecordCount ==
  /\ pc \in {"sort", "compress", "index", "done"}
       => out.exists /\ Len(out.recs) = Len(infile.recs)
  /\ gz.exists => Len(gz.recs) = Len(infile.recs)

\* A finished run on a file of two or more records, one of them excluded from
\* the dataset.
C1_Witness ==
  /\ pc = "done" /\ gz.exists /\ Len(gz.recs) >= 2
  /\ \E i \in 1..Len(infile.recs) : IsExcluded(i)

\* C2 as stated: an emitted record differs from the original at most in the
\* fourteen writable INFO keys and in the FORMAT fields of the Writer's list,
\* and a record that matches no dataset row is emitted unchanged.
C2_Original ==
  InWriteOrder =>
    \A i \in 1..Len(out.recs) :
      LET o == infile.recs[i]
          w == out.recs[i]
      IN  /\ FixedColumnsSame(o, w)
          /\ OtherInfoSame(o, w)
          /\ UnlistedFormatSame(o, w, FALSE)
          /\ ~HasRow(o) => w = o

\* C2 amended: as C2, but on a record that matches a dataset row the FORMAT ID
\* of any sample may also change, from the NaN/NA sentinel to ".".
C2_Amended ==
  InWriteOrder =>
    \A i \in 1..Len(out.recs) :
      LET o == infile.recs[i]
          w == out.recs[i]
      IN  /\ FixedColumnsSame(o, w)
          /\ OtherInfoSame(o, w)
          /\ UnlistedFormatSame(o, w, TRUE)
          /\ ~HasRow(o) => w = o

\* A written file with a matched record whose INFO and sample ID both changed
\* and an unmatched record.
C2_Witness ==
  /\ pc = "sort"
  /\ \E i \in 1..Len(out.recs) :
       /\ HasRow(infile.recs[i])
       /\ out.recs[i].INFO # infile.recs[i].INFO
       /\ out.recs[i].calls # infile.recs[i].calls
  /\ \E i \in 1..Len(out.recs) : ~HasRow(infile.recs[i])

\* C3 as stated: every record excluded from the dataset is written with its
\* INFO and FORMAT values identical to the original.
C3_Original ==
  InWriteOrder =>
    \A i \in 1..Len(out.recs) :
      IsExcluded(i) => /\ out.recs[i].INFO = infile.recs[i].INFO
                       /\ out.recs[i].calls = infile.recs[i].calls

\* The rows of d in the (CHROM, POSITION, SVTYPE) group of row j.
GroupOf(d, j) ==
  { i \in 1..Len(d.rows) :
      /\ d.rows[i]["CHROM"] = d.rows[j]["CHROM"]
      /\ d.rows[i]["POSITION"] = d.rows[j]["POSITION"]
      /\ d.rows[i]["SVTYPE"] = d.rows[j]["SVTYPE"] }

\* The distinct non-null PRIMARY_CALLER values of the group of row j.
GroupCallers(d, j) ==
  { PyStr(d.rows[i]["PRIMARY_CALLER"]) :
      i \in { g \in GroupOf(d, j) : ~IsNone(d.rows[g]["PRIMARY_CALLER"]) } }

\* The distinct caller names in the SUPP_CALLERS of row j, none when the
\* column is absent or the value is null or empty.
NamesIn(d, j) ==
  IF "SUPP_CALLERS" \notin d.cols THEN {}
  ELSE IF d.rows[j]["SUPP_CALLERS"].t # "str" \/ d.rows[j]["SUPP_CALLERS"].v = << >> THEN {}
  ELSE SeqToSet(Split(d.rows[j]["SUPP_CALLERS"].v, ","))

\* C4 as stated: after compute_supp_callers every row carries the sorted,
\* deduplicated, comma-joined non-null PRIMARY_CALLERs of the rows of its own
\* (CHROM, POSITION, SVTYPE) group.
C4_Original ==
  pc = "num_callers" =>
    \A j \in 1..Len(df.rows) :
      /\ "SUPP_CALLERS" \in df.cols
      /\ df.rows[j]["SUPP_CALLERS"] = S(Join(SortedStrs(GroupCallers(df, j)), <<",">>))

\* C5 as stated: after aggregation under BCF every row's NUM_CALLERS is the
\* number of distinct names in its SUPP_CALLERS, which is the number of
\* distinct non-null PRIMARY_CALLERs of its group.
C5_Original ==
  (pc = "parsed" /\ label = "bcf") =>
    \A j \in 1..Len(df.rows) :
      /\ "NUM_CALLERS" \in df.cols
      /\ df.rows[j]["NUM_CALLERS"] = I(Cardinality(NamesIn(df, j)))
      /\ df.rows[j]["NUM_CALLERS"] = I(Cardinality(GroupCallers(df, j)))

\* C6 as stated: a run ends with a complete output, or it fails with no output
\* file written.
C6_Original ==
  /\ pc = "failed" => ~out.exists /\ ~gz.exists
  /\ pc = "done" => /\ out.exists /\ ~out.open /\ gz.exists
                    /\ Len(out.recs) = Len(infile.recs)

CallerTags == { "SUPP_CALLERS", "NUM_CALLERS", "PRIMARY_CALLER" }

\* The entries of dict d under the keys K.
Restrict(d, K) == [ k \in DOMAIN d \cap K |-> d[k] ]

\* C7 as stated: a run on the first run's output declares the three computed
\* INFO ids once each, as the first run did, and writes on every record the
\* SUPP_CALLERS, NUM_CALLERS and PRIMARY_CALLER the first run wrote.
C7_Original ==
  (run = 2 /\ pc = "sort") =>
    /\ out.header = first.header
    /\ \A id \in CallerTags : Occurrences(out.header, id) = 1
    /\ \A i \in 1..Len(out.recs) :
         Restrict(out.recs[i].INFO, CallerTags) = Restrict(first.recs[i].INFO, CallerTags)

\* C8 as stated: every row of the dataset parse_vcf returns has SVTYPE present
\* and SVLEN a non-negative integer.
C8_Original ==
  pc = "parsed" =>
    \A j \in 1..Len(df.rows) :
      /\ CellNotna(df.rows[j]["SVTYPE"])
      /\ df.rows[j]["SVLEN"].t = "int"
      /\ df.rows[j]["SVLEN"].v >= 0

\* (CHROM, POSITION) ascends along q: chromosome names as strings, then
\* positions as integers.
IsAscending(q) ==
  \A i \in 1..(Len(q) - 1) :
    \/ StrLess(q[i].CHROM, q[i + 1].CHROM)
    \/ q[i].CHROM = q[i + 1].CHROM /\ q[i].POS <= q[i + 1].POS

C10_Original ==
  /\ pc = "failed" => error # "compress"
  /\ "index" \in warnings => pc = "done" /\ out.exists /\ ~IsNone(returned)

\* C11: when the Writer's dataset is absent or has no rows, write() warns that
\* there is no data to enrich and emits every original record as it is: no
\* record makes _update_record raise, the INFO and FORMAT values of each
\* written record are those of the original, and no SUPP_CALLERS, NUM_CALLERS
\* or PRIMARY_CALLER appears that the original did not carry.
C11_EmptyDataset ==
  (pc \in {"writing", "sort"} /\ Len(writer_df.rows) = 0) =>
    /\ "no_data" \in warnings
    /\ \A i \in 1..Len(infile.recs) :
         /\ ~IsExc(Emitted[i])
         /\ Emitted[i] = infile.recs[i]
    /\ \A i \in 1..Len(out.recs) :
         /\ out.recs[i].INFO = infile.recs[i].INFO
         /\ out.recs[i].calls = infile.recs[i].calls
         /\ run = 1 => DOMAIN out.recs[i].INFO \cap CallerTags = {}

\* write() has emitted two records of a file whose records were all excluded
\* from the dataset, one of them with a NaN sample ID.
C11_Witness ==
  /\ pc = "sort" /\ run = 1
  /\ Len(writer_df.rows) = 0
  /\ Len(out.recs) = 2
  /\ \E i \in 1..Len(out.recs) : Len(out.recs[i].calls) = 2

\* The rows of dataset d that miss column c (None or NaN).
Missing(d, c) == { i \in 1..Len(d.rows) : ~CellNotna(d.rows[i][c]) }

\* The unique_id values of the rows of d, in row order.
UniqueIds(d) == [ i \in 1..Len(d.rows) |-> d.rows[i]["unique_id"] ]

\* The subsequence of q at the indices in K, in order.
Sub(q, K) ==
  [ p \in 1..Cardinality(K \cap (1..Len(q))) |->
      q[CHOOSE i \in K \cap (1..Len(q)) :
          Cardinality({ j \in K \cap (1..Len(q)) : j <= i }) = p] ]

NoSvlen == { i \in 1..Len(infile.recs) : "SVLEN" \notin DOMAIN infile.recs[i].INFO }

\* The validation of parse_vcf has run on at least one parsed record.
Validated == pc \in {"supp_callers", "num_callers", "parsed"} /\ Len(records) > 0

IntervalOf(info, key) ==
  IF key \in DOMAIN info /\ info[key].t = "list" /\ Len(info[key].v) >= 2
     /\ info[key].v[1].t = "int" /\ info[key].v[2].t = "int"
  THEN L(<< info[key].v[1], info[key].v[2] >>)
  ELSE None

\* What calculate_confidence_intervals returns for the i-th record of the
\* input file under the strategy its caller name selects.
IntervalsOfRecord(i) ==
  calculate_confidence_intervals(
    _get_caller_for_variant(extract_primary_caller(label, infile.recs[i].INFO,
                                                   infile.recs[i])),
    infile.recs[i].INFO, infile.recs[i])

\* C14 as stated: for every record the parse loop has taken,
\* calculate_confidence_intervals returned normally under every strategy: a
\* non-numeric or malformed interval is "no value", the other interval is as
\* computed, and the loop did not stop on the record.
C14_Original ==
  /\ \A i \in 1..idx :
       /\ IntervalsOfRecord(i)[1] = IntervalOf(infile.recs[i].INFO, "CIPOS")
       /\ IntervalsOfRecord(i)[2] = IntervalOf(infile.recs[i].INFO, "CIEND")
  /\ error # "parse"

\* The caller-specific numeric INFO fields.
NumericFields == { "SUPPORT", "CILEN", "RE", "AF", "NMP", "MAPQ" }

\* What parse_info_fields returns for the i-th record of the input file under
\* the strategy its caller name selects.
ParsedInfoOfRecord(i) ==
  parse_info_fields(
    _get_caller_for_variant(extract_primary_caller(label, infile.recs[i].INFO,
                                                   infile.recs[i])),
    infile.recs[i].INFO)

\* C15 as stated: for every record the parse loop has taken, parse_info_fields
\* returned normally and no exception left the loop; in the row of a record a
\* caller-specific numeric field that held an unparsable text is "no value".
C15_Original ==
  /\ \A i \in 1..idx : ~IsExc(ParsedInfoOfRecord(i))
  /\ error # "parse"
  /\ \A i \in 1..Len(records) :
       \A f \in NumericFields \cap DOMAIN infile.recs[i].INFO :
         infile.recs[i].INFO[f].t = "str" => IsNone(records[i][f])

\* The strategy whose mark a parsed row carries.
StrategyOfRow(row) ==
  CASE row["SUPPORT"] = I(3)                -> "sniffles"
    [] row["OA"] = S(<<"1">>)               -> "tiddit"
    [] row["NMP"] = I(2)                    -> "dysgu"
    [] row["RE"] = I(4)                     -> "cutesv"
    [] row["SVTYPE"] = S(<<"B", "N", "D">>) -> "gridss"
    [] OTHER                                -> "generic"

\* The caller name of the i-th record of the input file, None when absent.
NameOfRecord(i) == Get(infile.recs[i].INFO, "EUK_CALLER")

\* C16: every parsed row was processed by the strategy the dispatch rule
\* gives its caller name: the first of Sniffles, TIDDIT, Dysgu, cuteSV, GRIDSS
\* found in the lower-cased name, Generic for any other, an empty or an absent
\* name; two records with the same name were processed by the same strategy.
\* (Stated of the first run: its input records carry no mark of a strategy.)
C16_Dispatch ==
  run = 1 =>
    /\ \A i \in 1..Len(records) :
         \E e \in NameCases : e[1] = NameOfRecord(i) /\ e[2] = StrategyOfRow(records[i])
    /\ \A i, j \in 1..Len(records) :
         NameOfRecord(i) = NameOfRecord(j)
           => StrategyOfRow(records[i]) = StrategyOfRow(records[j])

\* Two records were parsed whose names each hold two caller names, and the
\* earlier name of the priority order won in both.
C16_Witness ==
  /\ run = 1 /\ Len(records) = 2
  /\ NameOfRecord(1) = S(<<"g", "r", "i", "d", "s", "s", "_", "c", "u", "t", "e", "s", "v">>)
  /\ StrategyOfRow(records[1]) = "cutesv"
  /\ NameOfRecord(2) = S(<<"t", "i", "d", "d", "i", "t", "_", "s", "n", "i", "f", "f", "l", "e", "s">>)
  /\ StrategyOfRow(records[2]) = "sniffles"

\* The raw SVLEN of the i-th record of the input file, None when absent.
RawSvlen(i) == Get(infile.recs[i].INFO, "SVLEN")

\* The length each raw SVLEN stands for: the absolute value of an integer, of
\* the single element of a list or of a numeric string; no value for None, an
\* empty list and a non-numeric string.  The positive integers are the lengths
\* an earlier run wrote into the file.
SvlenCases ==
  { << None, None >>,
    << I(-5), I(5) >>,
    << I(5), I(5) >>,
    << I(7), I(7) >>,
    << L(<< I(-5) >>), I(5) >>,
    << L(<< >>), None >>,
    << S(<<"7">>), I(7) >>,
    << S(<<"a", "b", "c">>), None >> }

\* C17: for the raw SVLEN v of every record the parse loop has taken,
\* GeneralProcessor.normalize_svlen raised nothing, gave the length v stands
\* for (an integer >= 0, or no value), and applied to its own result gives
\* that result again.
C17_Idempotent ==
  \A i \in 1..idx :
    /\ ~IsRaise(normalize_svlen(RawSvlen(i)))
    /\ \E e \in SvlenCases :
         e[1] = RawSvlen(i) /\ e[2] = normalize_svlen(RawSvlen(i))
    /\ normalize_svlen(RawSvlen(i)).t = "int" => normalize_svlen(RawSvlen(i)).v >= 0
    /\ normalize_svlen(normalize_svlen(RawSvlen(i))) = normalize_svlen(RawSvlen(i))

\* The loop has taken a record with a negative integer in a list and a record
\* with a non-numeric string as SVLEN.
C17_Witness ==
  /\ idx = 2
  /\ RawSvlen(1) = L(<< I(-5) >>)
  /\ RawSvlen(2) = S(<<"a", "b", "c">>)

\* The INFO keys the enrichment is allowed to change.
EnrichedKeys == {"SUPP_CALLERS", "PRIMARY_CALLER", "NUM_CALLERS", "SVLEN"}

\* C18: every record written to the enriched file has every other INFO key
\* of its original record, with the original value.
C18_Original ==
  InWriteOrder =>
  \A i \in 1..Len(out.recs) :
    \A k \in DOMAIN infile.recs[i].INFO \ EnrichedKeys :
      /\ k \in DOMAIN out.recs[i].INFO
      /\ out.recs[i].INFO[k] = infile.recs[i].INFO[k]

\* C19: every NUM_CALLERS in a written record is a positive integer and is
\* the number of elements of the SUPP_CALLERS list of that record.
C19_Original ==
  \A i \in 1..Len(out.recs) :
    "NUM_CALLERS" \in DOMAIN out.recs[i].INFO =>
      /\ out.recs[i].INFO["NUM_CALLERS"].t = "int"
      /\ out.recs[i].INFO["NUM_CALLERS"].v > 0
      /\ "SUPP_CALLERS" \in DOMAIN out.recs[i].INFO
      /\ out.recs[i].INFO["SUPP_CALLERS"].t = "list"
      /\ out.recs[i].INFO["NUM_CALLERS"].v = Len(out.recs[i].INFO["SUPP_CALLERS"].v)

\* The row was made from the record: same chromosome, position and first ID.
RowOf(row, record) ==
  /\ row["CHROM"] = S(record.CHROM)
  /\ row["POSITION"] = I(record.POS)
  /\ row["ID"] = FirstId(record)

\* The parse loop has ended without an exception.
Exhausted == pc \notin {"start", "parsing"} /\ error \notin {"open", "parse"}

\* C20: the loop takes the records in file order, the j-th with index j - 1,
\* none twice, and all of them once it has ended; an iteration started on the
\* exhausted reader yields nothing; and every dataset row carries as
\* unique_id the index of the record it was made from.
C20_SinglePass ==
  /\ Len(records) <= Len(infile.recs)
  /\ \A j \in 1..Len(records) :
       /\ records[j]["unique_id"] = I(j - 1)
       /\ RowOf(records[j], infile.recs[j])
  /\ Exhausted =>
       /\ Len(records) = Len(infile.recs)
       /\ read_records(infile.recs, idx) = << >>
  /\ \A j \in 1..Len(df.rows) :
       /\ df.rows[j]["unique_id"].t = "int"
       /\ df.rows[j]["unique_id"].v \in 0..(Len(infile.recs) - 1)
       /\ RowOf(df.rows[j], infile.recs[df.rows[j]["unique_id"].v + 1])

\* The loop has taken two different records and the validation kept only the
\* second one, whose row carries index 1.
C20_Witness ==
  /\ Exhausted
  /\ Len(infile.recs) = 2
  /\ infile.recs[1] # infile.recs[2]
  /\ Len(df.rows) = 1
  /\ df.rows[1]["unique_id"] = I(1)

\* The primary caller parse_vcf extracts from the i-th record of the input.
PrimaryCallerOfRecord(i) ==
  extract_primary_caller(label, infile.recs[i].INFO, infile.recs[i])

\* C21: a PRIMARY_CALLER the Writer wrote to a record is the primary caller
\* extracted from that same record.
C21_Original ==
  (InWriteOrder /\ run = 1) =>
    \A i \in 1..Len(out.recs) :
      "PRIMARY_CALLER" \in DOMAIN out.recs[i].INFO =>
        out.recs[i].INFO["PRIMARY_CALLER"] = PrimaryCallerOfRecord(i)

\* The indices of the Writer's rows at the position of the record.
RowsAt(record) ==
  { j \in 1..Len(writer_df.rows) :
      /\ writer_df.rows[j]["CHROM"] = S(record.CHROM)
      /\ writer_df.rows[j]["POSITION"] = I(record.POS) }

LastRowAt(record) ==
  CHOOSE j \in RowsAt(record) : \A k \in RowsAt(record) : k <= j

\* The Writer's dataset cut down to the last row at the position of the record.
OnlyLastRow(record) ==
  [ cols |-> writer_df.cols, rows |-> << writer_df.rows[LastRowAt(record)] >> ]

\* The row has no value in the column.
NullIn(row, col) == col \notin DOMAIN row \/ row[col].t \in {"none", "nan"}

\* C22: a written record whose position has dataset rows is what the update
\* gives from the last of these rows alone, and for every written INFO tag
\* whose column is null in that row, and for PRIMARY_CALLER, it keeps what the
\* original record had.
C22_LastRowWins ==
  InWriteOrder =>
    \A i \in 1..Len(out.recs) :
      (should_write /\ RowsAt(infile.recs[i]) # {}) =>
        /\ out.recs[i] = _update_record(infile.recs[i], OnlyLastRow(infile.recs[i]),
                                        _create_lookup(OnlyLastRow(infile.recs[i])))
        /\ \A k \in 1..Len(WRITABLE_INFO_FIELDS) :
             NullIn(writer_df.rows[LastRowAt(infile.recs[i])], WRITABLE_INFO_FIELDS[k].col) =>
               Get(out.recs[i].INFO, WRITABLE_INFO_FIELDS[k].tag)
                 = Get(infile.recs[i].INFO, WRITABLE_INFO_FIELDS[k].tag)
        /\ NullIn(writer_df.rows[LastRowAt(infile.recs[i])], "PRIMARY_CALLER") =>
             Get(out.recs[i].INFO, "PRIMARY_CALLER")
               = Get(infile.recs[i].INFO, "PRIMARY_CALLER")

\* Two rows share a position, the earlier one names a caller and the last one
\* names none, and both records of the position are written without a
\* PRIMARY_CALLER.
C22_Witness ==
  /\ pc = "sort"
  /\ run = 1
  /\ Len(out.recs) = 2
  /\ RowsAt(infile.recs[1]) = {1, 2}
  /\ ~NullIn(writer_df.rows[1], "PRIMARY_CALLER")
  /\ NullIn(writer_df.rows[2], "PRIMARY_CALLER")
  /\ "PRIMARY_CALLER" \notin DOMAIN out.recs[1].INFO
  /\ "PRIMARY_CALLER" \notin DOMAIN out.recs[2].INFO

\* Sample j of the i-th record was written as it was read, but for the
\* cleaning of its FORMAT ID.
SampleKept(i, j) ==
  \A f \in DOMAIN infile.recs[i].calls[j] \ {"ID"} :
    out.recs[i].calls[j][f] = infile.recs[i].calls[j][f]

RowFor(i) == writer_df.rows[LastRowAt(infile.recs[i])]

Matched(i) == should_write /\ RowsAt(infile.recs[i]) # {}

IsNanId(x) == x.t = "str" /\ Upper(x.v) \in { <<"N", "A", "N">>, <<"N", "A">> }

\* C24 as stated: every sample of a written record other than the target
\* sample has exactly the FORMAT data of the original.
C24_Original ==
  InWriteOrder =>
    \A i \in 1..Len(out.recs) :
      \A j \in 1..Len(infile.recs[i].calls) :
        j # target_sample_idx(out.recs[i].INFO, infile.recs[i].calls) + 1 =>
          out.recs[i].calls[j] = infile.recs[i].calls[j]

\* C24, amended: every sample other than the target sample keeps its FORMAT
\* data, except that on a record with a dataset row a FORMAT ID of NaN or NA
\* is written as "."; and a listed field whose dataset value holds " | " is
\* the original's on every sample.
C24_Amended ==
  InWriteOrder =>
    \A i \in 1..Len(out.recs) :
      /\ \A j \in 1..Len(infile.recs[i].calls) :
           j # target_sample_idx(out.recs[i].INFO, infile.recs[i].calls) + 1 =>
             /\ SampleKept(i, j)
             /\ out.recs[i].calls[j]["ID"] =
                  IF Matched(i) /\ IsNanId(infile.recs[i].calls[j]["ID"])
                  THEN S(<<".">>) ELSE infile.recs[i].calls[j]["ID"]
      /\ Matched(i) =>
           \A f \in format_fields_to_update \cap DOMAIN RowFor(i) :
             (RowFor(i)[f].t = "str" /\ Contains(RowFor(i)[f].v, <<" ", "|", " ">>)) =>
               \A j \in 1..Len(infile.recs[i].calls) :
                 Get(out.recs[i].calls[j], f) = Get(infile.recs[i].calls[j], f)

\* A BCF-convention record with four sample slots was written: its row's GT
\* is joined over the slots with " | ", and the first slot, not the target,
\* had its NaN ID written as ".".
C24_Witness ==
  /\ pc = "sort"
  /\ label = "bcf"
  /\ \E i \in 1..Len(out.recs) :
       /\ Matched(i)
       /\ Len(infile.recs[i].calls) = 4
       /\ Contains(RowFor(i)["GT"].v, <<" ", "|", " ">>)
       /\ target_sample_idx(out.recs[i].INFO, infile.recs[i].calls) = 1
       /\ out.recs[i].calls[1]["ID"] = S(<<".">>)
       /\ infile.recs[i].calls[1]["ID"] # S(<<".">>)

\* The slot a SUPP_VEC of the sample records makes authoritative (0-based).
FirstBitCases ==
  { << <<"0", "1", "0", "0">>, 1 >>, << <<"0", "1", "1", "0">>, 1 >>,
    << <<"1">>, 0 >>, << <<"0", "0">>, 0 >> }

\* The flattened GT and DR of a sample slot, told by the slot's ID: the delly
\* slot's DR list is comma-joined, a sentinel DR becomes ".".
FlatSlot(slot) ==
  IF slot["ID"] = DellySlot["ID"]
  THEN [ GT |-> S(<<"0", "/", "1">>), DR |-> S(<<"3", ",", "4">>) ]
  ELSE IF slot["ID"] = DysguSlot["ID"]
  THEN [ GT |-> S(<<"1", "/", "1">>), DR |-> S(<<".">>) ]
  ELSE [ GT |-> S(<<".", "/", ".">>), DR |-> S(<<".">>) ]

\* C25: under the SURVIVOR convention the row of every record the loop has
\* taken holds the flattened GT and DR of the slot at the first 1 of
\* SUPP_VEC (slot 0 when there is none) and of no other slot, and "-" for PR,
\* SR and GQ, which that slot does not have.
C25_FirstBitSample ==
  label = "survivor" =>
    \A j \in 1..Len(records) :
      \E e \in FirstBitCases :
        /\ infile.recs[j].INFO["SUPP_VEC"] = S(e[1])
        /\ records[j]["GT"] = FlatSlot(infile.recs[j].calls[e[2] + 1])["GT"]
        /\ records[j]["DR"] = FlatSlot(infile.recs[j].calls[e[2] + 1])["DR"]
        /\ \A f \in {"PR", "SR", "GQ"} : records[j][f] = S(<<"-">>)

\* The loop has taken a record with SUPP_VEC 0110 and one with SUPP_VEC 0100:
\* both rows hold the delly slot's values, the list joined.
C25_Witness ==
  /\ label = "survivor"
  /\ Len(records) = 2
  /\ infile.recs[1].INFO["SUPP_VEC"] = S(<<"0", "1", "1", "0">>)
  /\ infile.recs[2].INFO["SUPP_VEC"] = S(<<"0", "1", "0", "0">>)
  /\ records[1]["DR"] = S(<<"3", ",", "4">>)
  /\ records[2]["GT"] = S(<<"0", "/", "1">>)

\* The two datasets have the same number of rows and agree, row by row, in
\* the SUPP_CALLERS and NUM_CALLERS columns.
SameCallerColumns(d, e) ==
  /\ {"SUPP_CALLERS", "NUM_CALLERS"} \subseteq d.cols \cap e.cols
  /\ Len(d.rows) = Len(e.rows)
  /\ \A j \in 1..Len(d.rows) :
       /\ d.rows[j]["SUPP_CALLERS"] = e.rows[j]["SUPP_CALLERS"]
       /\ d.rows[j]["NUM_CALLERS"] = e.rows[j]["NUM_CALLERS"]
       /\ d.rows[j]["unique_id"] = e.rows[j]["unique_id"]

\* C26 as stated: the aggregated dataset has one SUPP_CALLERS column, also
\* when the parsed rows already carried one, and aggregating it again gives
\* the same SUPP_CALLERS and NUM_CALLERS columns over the same rows.
C26_Original ==
  (pc = "parsed" /\ label = "bcf" /\ Len(df.rows) > 0) =>
    /\ "SUPP_CALLERS" \in df.cols
    /\ df.cols \cap {"SUPP_CALLERS_x", "SUPP_CALLERS_y"} = {}
    /\ SameCallerColumns(aggregate(df), df)

\* The caller names in the sample IDs of the i-th record of the input: the
\* text before the first underscore of every ID that has one.
SampleCallers(i) ==
  { Split(infile.recs[i].calls[j]["ID"].v, "_")[1] :
      j \in { k \in 1..Len(infile.recs[i].calls) :
                /\ infile.recs[i].calls[k]["ID"].t = "str"
                /\ Contains(infile.recs[i].calls[k]["ID"].v, <<"_">>) } }

\* C27: under the SURVIVOR convention a record with caller names in its
\* sample IDs is written with SUPP_CALLERS the sorted list of exactly these
\* names and NUM_CALLERS their number.
C27_Original ==
  (InWriteOrder /\ label = "survivor") =>
    \A i \in 1..Len(out.recs) :
      (Matched(i) /\ SampleCallers(i) # {}) =>
        /\ out.recs[i].INFO["SUPP_CALLERS"] =
             L([k \in 1..Cardinality(SampleCallers(i)) |->
                  S(SortedStrs(SampleCallers(i))[k])])
        /\ out.recs[i].INFO["NUM_CALLERS"] = I(Cardinality(SampleCallers(i)))

\* Half of each width of the Dysgu records, by integer (floor) division.
HalfCases ==
  { << I(20), 10 >>, << I(21), 10 >>, << L(<< I(20) >>), 10 >>, << I(-3), -2 >>,
    << I(0), 0 >>, << I(30), 15 >>, << I(31), 15 >>, << L(<< I(30) >>), 15 >> }

HalfOf(w) == (CHOOSE e \in HalfCases : e[1] = w)[2]

\* The interval of the given half width around the centre.
Around(center, half) == L(<< I(center - half), I(center + half) >>)

\* The row of the j-th record holds the intervals of the record's widths,
\* CIPOS around POS and CIEND around END (around 0 without END).
Ci95Computed(j) ==
  /\ records[j]["CIPOS"] =
       Around(infile.recs[j].POS, HalfOf(infile.recs[j].INFO["CIPOS95"]))
  /\ records[j]["CIEND"] =
       Around(GetDefault(infile.recs[j].INFO, "END", I(0)).v,
              HalfOf(infile.recs[j].INFO["CIEND95"]))

IsOrdered(ci) == ci.v[1].v <= ci.v[2].v

str_BND == <<"B", "N", "D">>

\* The record has neither an SVTYPE value nor a MATEID value.
Singleton(info) == IsNone(Get(info, "SVTYPE")) /\ IsNone(Get(info, "MATEID"))

\* GridssVariantCaller.parse_info_fields on the INFO of the j-th record sets
\* SVTYPE to BND exactly for a singleton and returns every other field, and
\* every field of any other record, as it is.
GridssInferred(j) ==
  /\ DOMAIN gridss_parse_info_fields(infile.recs[j].INFO)
       = DOMAIN infile.recs[j].INFO
           \cup (IF Singleton(infile.recs[j].INFO) THEN {"SVTYPE"} ELSE {})
  /\ \A k \in DOMAIN gridss_parse_info_fields(infile.recs[j].INFO) :
       gridss_parse_info_fields(infile.recs[j].INFO)[k] =
         IF k = "SVTYPE" /\ Singleton(infile.recs[j].INFO) THEN S(str_BND)
         ELSE infile.recs[j].INFO[k]

\* The j-th record has a row in the validated dataset.
KeptRow(j) == \E r \in 1..Len(df.rows) : df.rows[r]["unique_id"] = I(j - 1)

C30_Original ==
  pc \notin {"start", "parsing"} => ~reader_open

====
